---- MODULE Spec2Model ----
(***************************************************************************)
(* Kernel enforcement plane of leash: the three LSM BPF objects            *)
(*   internal/lsm/bpf/lsm_open.bpf.c     (lsm/file_open)                   *)
(*   internal/lsm/bpf/lsm_exec.bpf.c     (lsm/bprm_check_security and      *)
(*                                        tracepoint sys_enter_execve)     *)
(*   internal/lsm/bpf/lsm_connect.bpf.c  (lsm/socket_connect, _sendmsg)    *)
(* and the maps through which the user-space controller configures them.   *)
(*                                                                         *)
(* Bytes are naturals 0..255 (0 is NUL).  A C buffer is a sequence holding *)
(* its leading bytes; Byte reads 0 past the end of the sequence.  A BPF    *)
(* hash map is a function whose DOMAIN is the set of keys present; a BPF   *)
(* array map is a value (one slot) or a sequence of slots.                 *)
(*                                                                         *)
(* The three objects share no map, so a run of the whole system is three   *)
(* independent runs side by side.  `attached` names the object whose       *)
(* programs and maps a run exercises; Init chooses it.                     *)
(***************************************************************************)
EXTENDS Integers, Sequences, FiniteSets, TLC

VARIABLES
    attached,              \* the object under exercise: "open" | "exec" | "connect"
    \* lsm_open.bpf.c
    target_cgroup,         \* array[1] of u64
    allowed_cgroups,       \* hash u64 -> u8
    policy_rules,          \* array[256] of struct policy_rule
    num_rules,             \* array[1] of u32
    default_policy,        \* array[1] of u32
    \* lsm_exec.bpf.c
    exec_target_cgroup,
    exec_allowed_cgroups,
    exec_policy_rules,     \* array[64] of struct exec_policy_rule
    exec_num_rules,
    exec_default_policy,
    pending_exec_args,     \* hash u32 pid -> struct pending_exec_args
    \* lsm_connect.bpf.c
    connect_target_cgroup,
    connect_allowed_cgroups,
    connect_policy_rules,  \* array[256] of struct connect_policy_rule
    connect_num_rules,     \* array[1] of s32
    connect_default_policy,
    dns_cache,             \* hash u32 ipv4 -> char[128]
    \* the tasks issuing syscalls
    task,                  \* pid -> where the task is in an execve call
    \* observation of the probe invocation made by the latest step
    last

openMaps    == <<target_cgroup, allowed_cgroups, policy_rules, num_rules, default_policy>>
execCtlMaps == <<exec_target_cgroup, exec_allowed_cgroups, exec_policy_rules,
                 exec_num_rules, exec_default_policy>>
connectMaps == <<connect_target_cgroup, connect_allowed_cgroups, connect_policy_rules,
                 connect_num_rules, connect_default_policy, dns_cache>>
vars == <<attached, openMaps, execCtlMaps, pending_exec_args, connectMaps, task, last>>

----------------------------------------------------------------------------
(* Bounds of the exploration *)

\* rule slots the controller populates (slots above stay zero-filled)
MaxRules == 2
\* tasks (pids) issuing execve calls
MaxPid == 2

Pids == 1..MaxPid
\* cgroup ids a task can be in
Cgroups == {1, 2}
\* values the controller stores in the sentinel slot
SentinelValues == {0, 1}
\* values the controller stores against a cgroup id
AllowedValues == {0, 1}

----------------------------------------------------------------------------
(* Program constants *)

MAX_PATH_LEN == 256
OP_OPEN == 0
OP_OPEN_RO == 1
OP_OPEN_RW == 2
FMODE_READ == 1
FMODE_WRITE == 2
AF_INET == 2
AF_INET6 == 10
\* -EACCES as returned by the LSM programs
EACCES_RET == -13

----------------------------------------------------------------------------
(* Buffers *)

\* buf[i] of the C code, i counted from 0
Byte(buf, i) == IF i < Len(buf) THEN buf[i + 1] ELSE 0

\* the C string a buffer holds: its bytes up to the first NUL
RECURSIVE CStrFrom(_, _)
CStrFrom(buf, i) ==
    IF Byte(buf, i) = 0 THEN <<>> ELSE <<Byte(buf, i)>> \o CStrFrom(buf, i + 1)
CStr(buf) == CStrFrom(buf, 0)

\* f_mode & bit, for a single-bit mask
HasBit(x, bit) == (x \div bit) % 2 = 1

\* policy_result ? 0 : -13
Verdict(policy_result) == IF policy_result # 0 THEN 0 ELSE EACCES_RET

NoCall == [probe |-> "none"]
NoEvent == [kind |-> "none"]

----------------------------------------------------------------------------
(* lsm_open.bpf.c *)

ZeroPolicyRule == [action |-> 0, operation |-> 0, path_len |-> 0, path |-> <<>>]

\* bpf_map_lookup_elem(&policy_rules, &key) returns NULL only for a key outside
\* the array; slots the controller never wrote are zero-filled
PolicyRuleIsNull(key) == key >= 256
PolicyRuleAt(rules, key) == IF key < Len(rules) THEN rules[key + 1] ELSE ZeroPolicyRule
PolicyRuleLookup(key) == PolicyRuleAt(policy_rules, key)

is_target_cgroup(cg) ==
    IF target_cgroup = 0 THEN FALSE
    ELSE cg \in DOMAIN allowed_cgroups /\ allowed_cgroups[cg] = 1

RECURSIVE starts_with_loop(_, _, _, _)
starts_with_loop(s, p, max_len, i) ==
    IF i >= 64 THEN 1
    ELSE IF i >= max_len THEN 1
    ELSE IF Byte(s, i) # Byte(p, i) THEN 0
    ELSE starts_with_loop(s, p, max_len, i + 1)

simple_string_starts_with(s, p, max_len) ==
    starts_with_loop(s, p, IF max_len > 64 THEN 64 ELSE max_len, 0)

\* the eight prefixes "mnt:[" "net:[" "ipc:[" "pid:[" "uts:[" "user:[" "cgroup:[" "time:["
nsfs_prefixes ==
    << <<109, 110, 116, 58, 91>>, <<110, 101, 116, 58, 91>>,
       <<105, 112, 99, 58, 91>>,  <<112, 105, 100, 58, 91>>,
       <<117, 116, 115, 58, 91>>, <<117, 115, 101, 114, 58, 91>>,
       <<99, 103, 114, 111, 117, 112, 58, 91>>, <<116, 105, 109, 101, 58, 91>> >>

IsDigit(c) == c >= 48 /\ c <= 57

\* a variant that accepts the closing bracket without a digit before it
RECURSIVE nsfs_digits_any_bracket(_, _, _, _)
nsfs_digits_any_bracket(path, digit_pos, i, found_digit) ==
    IF i >= 16 THEN FALSE
    ELSE IF digit_pos + i >= MAX_PATH_LEN THEN FALSE
    ELSE LET c == Byte(path, digit_pos + i) IN
         IF IsDigit(c) THEN nsfs_digits_any_bracket(path, digit_pos, i + 1, TRUE)
         ELSE IF c = 93 THEN TRUE
         ELSE FALSE

\* the scan of up to 16 characters after the prefix
RECURSIVE nsfs_digits(_, _, _, _)
nsfs_digits(path, digit_pos, i, found_digit) ==
    IF i >= 16 THEN FALSE
    ELSE IF digit_pos + i >= MAX_PATH_LEN THEN FALSE
    ELSE LET c == Byte(path, digit_pos + i) IN
         IF IsDigit(c) THEN nsfs_digits(path, digit_pos, i + 1, TRUE)
         ELSE IF c = 93 /\ found_digit THEN TRUE
         ELSE FALSE

RECURSIVE nsfs_loop(_, _)
nsfs_loop(path, prefix_idx) ==
    IF prefix_idx >= 8 THEN FALSE
    ELSE LET prefix == nsfs_prefixes[prefix_idx + 1]
             prefix_len == Len(prefix)
             matches == \A i \in 0..(prefix_len - 1) : Byte(path, i) = prefix[i + 1]
         IN  IF matches /\ nsfs_digits(path, prefix_len, 0, FALSE) THEN TRUE
             ELSE nsfs_loop(path, prefix_idx + 1)

is_nsfs_path(path) == nsfs_loop(path, 0)

\* a variant that tests the READ bit before the WRITE bit
get_file_operation_type_read_first(f_mode) ==
    IF HasBit(f_mode, FMODE_READ) THEN OP_OPEN_RO
    ELSE IF HasBit(f_mode, FMODE_WRITE) THEN OP_OPEN_RW
    ELSE OP_OPEN

get_file_operation_type(f_mode) ==
    IF HasBit(f_mode, FMODE_WRITE) THEN OP_OPEN_RW
    ELSE IF HasBit(f_mode, FMODE_READ) THEN OP_OPEN_RO
    ELSE OP_OPEN

\* a variant that lets the first path-matching rule end the scan even when
\* its operation differs
RECURSIVE path_policy_loop_first_path(_, _, _, _)
path_policy_loop_first_path(path, file_op_type, n, i) ==
    IF i >= 256 \/ i >= n THEN default_policy
    ELSE LET rule == PolicyRuleLookup(i) IN
         IF PolicyRuleIsNull(i) \/ rule.path_len = 0 \/ rule.path_len > 64
         THEN path_policy_loop_first_path(path, file_op_type, n, i + 1)
         ELSE IF simple_string_starts_with(path, rule.path, rule.path_len) = 1
         THEN IF rule.operation = OP_OPEN \/ rule.operation = file_op_type
              THEN rule.action ELSE default_policy
         ELSE path_policy_loop_first_path(path, file_op_type, n, i + 1)

\* a variant of the scan that walks every slot of the array, whatever the count
RECURSIVE path_policy_scan_every_slot(_, _, _, _, _, _)
path_policy_scan_every_slot(rules, dflt, path, file_op_type, n, i) ==
    IF i >= 256 \/ i >= Len(rules) THEN dflt
    ELSE LET rule == PolicyRuleAt(rules, i) IN
         IF rule.path_len = 0 \/ rule.path_len > 64
         THEN path_policy_scan_every_slot(rules, dflt, path, file_op_type, n, i + 1)
         ELSE IF simple_string_starts_with(path, rule.path, rule.path_len) = 1
                 /\ (rule.operation = OP_OPEN \/ rule.operation = file_op_type)
              THEN rule.action
         ELSE path_policy_scan_every_slot(rules, dflt, path, file_op_type, n, i + 1)

\* a variant of the scan that compares 64 bytes of a rule whose path_len is
\* above 64 instead of passing it over
RECURSIVE path_policy_scan_long_rules(_, _, _, _, _, _)
path_policy_scan_long_rules(rules, dflt, path, file_op_type, n, i) ==
    IF i >= 256 \/ i >= n THEN dflt
    ELSE LET rule == PolicyRuleAt(rules, i) IN
         IF rule.path_len = 0
         THEN path_policy_scan_long_rules(rules, dflt, path, file_op_type, n, i + 1)
         ELSE IF simple_string_starts_with(path, rule.path, rule.path_len) = 1
                 /\ (rule.operation = OP_OPEN \/ rule.operation = file_op_type)
              THEN rule.action
         ELSE path_policy_scan_long_rules(rules, dflt, path, file_op_type, n, i + 1)

\* the loop of check_path_policy over the array content `rules` with the
\* default-policy value dflt
RECURSIVE path_policy_scan(_, _, _, _, _, _)
path_policy_scan(rules, dflt, path, file_op_type, n, i) ==
    IF i >= 256 \/ i >= n THEN dflt
    ELSE LET rule == PolicyRuleAt(rules, i) IN
         IF PolicyRuleIsNull(i) THEN path_policy_scan(rules, dflt, path, file_op_type, n, i + 1)
         ELSE IF rule.path_len = 0 \/ rule.path_len > 64
              THEN path_policy_scan(rules, dflt, path, file_op_type, n, i + 1)
         ELSE IF simple_string_starts_with(path, rule.path, rule.path_len) = 1
                 /\ (rule.operation = OP_OPEN \/ rule.operation = file_op_type)
              THEN rule.action
         ELSE path_policy_scan(rules, dflt, path, file_op_type, n, i + 1)

path_policy_loop(path, file_op_type, n, i) ==
    path_policy_scan(policy_rules, default_policy, path, file_op_type, n, i)

check_path_policy(path, file_op_type) ==
    IF num_rules = 0 THEN default_policy
    ELSE path_policy_loop(path, file_op_type, IF num_rules > 256 THEN 256 ELSE num_rules, 0)

\* check_path_policy over the map contents (rules, count, dflt)
path_policy_on(rules, count, dflt, path, file_op_type) ==
    IF count = 0 THEN dflt
    ELSE path_policy_scan(rules, dflt, path, file_op_type,
                          IF count > 256 THEN 256 ELSE count, 0)

\* comm starts with the bytes of word
CommHasPrefix(comm, word) == \A i \in 0..(Len(word) - 1) : Byte(comm, i) = word[i + 1]

\* the three loops and the test of lsm_open.bpf.c:325-379
package_manager_comm(comm) ==
    \/ CommHasPrefix(comm, <<97, 112, 116, 45, 103, 101, 116>>) /\ Byte(comm, 7) = 0
    \/ CommHasPrefix(comm, <<100, 112, 107, 103>>)
    \/ CommHasPrefix(comm, <<117, 112, 100, 97, 116, 101>>)

\* a variant that fills event->result before the comm test overrides the result
lsm_open_result_stale_event(cg, path, f_mode, comm, reserve_ok) ==
    LET file_op_type == get_file_operation_type(f_mode)
        matched == check_path_policy(path, file_op_type)
        forced == IF package_manager_comm(comm) THEN 1 ELSE matched
        call == [probe |-> "open", cg |-> cg, path |-> path, f_mode |-> f_mode,
                 comm |-> comm, reserve_ok |-> reserve_ok]
    IN  IF ~is_target_cgroup(cg) \/ is_nsfs_path(path)
        THEN call @@ [stage |-> "gate", matched |-> 0, policy_result |-> 0, ret |-> 0,
                      event |-> NoEvent]
        ELSE IF ~reserve_ok
        THEN call @@ [stage |-> "noreserve", matched |-> matched,
                      policy_result |-> matched, ret |-> Verdict(matched),
                      event |-> NoEvent]
        ELSE call @@ [stage |-> "submit", matched |-> matched, policy_result |-> forced,
                      ret |-> Verdict(forced),
                      event |-> [kind |-> "open", cgroup_id |-> cg, comm |-> comm,
                                 path |-> CStr(path), operation |-> file_op_type,
                                 result |-> Verdict(matched)]]

\* SEC("lsm/file_open"): the task in cgroup cg opens the file whose resolved
\* path (d_path or its fallback) fills the buffer `path`; reserve_ok is the
\* outcome of bpf_ringbuf_reserve.  `stage` names the return statement taken.
\* `matched` is what check_path_policy returned, `policy_result` the local
\* variable of that name when the program returns.
lsm_open_result(cg, path, f_mode, comm, reserve_ok) ==
    LET file_op_type == get_file_operation_type(f_mode)
        matched == check_path_policy(path, file_op_type)
        forced == IF package_manager_comm(comm) THEN 1 ELSE matched
        call == [probe |-> "open", cg |-> cg, path |-> path, f_mode |-> f_mode,
                 comm |-> comm, reserve_ok |-> reserve_ok]
    IN  IF ~is_target_cgroup(cg)
        THEN call @@ [stage |-> "gate", matched |-> 0, policy_result |-> 0, ret |-> 0,
                      event |-> NoEvent]
        ELSE IF is_nsfs_path(path)
        THEN call @@ [stage |-> "nsfs", matched |-> 0, policy_result |-> 0, ret |-> 0,
                      event |-> NoEvent]
        ELSE IF ~reserve_ok
        THEN call @@ [stage |-> "noreserve", matched |-> matched,
                      policy_result |-> matched, ret |-> Verdict(matched),
                      event |-> NoEvent]
        ELSE call @@ [stage |-> "submit", matched |-> matched, policy_result |-> forced,
                      ret |-> Verdict(forced),
                      event |-> [kind |-> "open", cgroup_id |-> cg, comm |-> comm,
                                 path |-> CStr(path), operation |-> file_op_type,
                                 result |-> Verdict(forced)]]

lsm_open(cg, path, f_mode, comm, reserve_ok) ==
    /\ attached = "open"
    /\ last' = lsm_open_result(cg, path, f_mode, comm, reserve_ok)
    /\ UNCHANGED <<attached, openMaps, execCtlMaps, pending_exec_args, connectMaps, task>>

----------------------------------------------------------------------------
(* lsm_connect.bpf.c *)

MAX_HOSTNAME_LEN == 128

ZeroConnectRule == [action |-> 0, dest_ip |-> 0, dest_port |-> 0,
                    hostname |-> <<>>, hostname_len |-> 0, is_wildcard |-> 0]

ConnectRuleIsNull(key) == key >= 256
ConnectRuleAt(rules, key) == IF key < Len(rules) THEN rules[key + 1] ELSE ZeroConnectRule
ConnectRuleLookup(key) == ConnectRuleAt(connect_policy_rules, key)

is_connect_target_cgroup(cg) ==
    IF connect_target_cgroup = 0 THEN FALSE
    ELSE cg \in DOMAIN connect_allowed_cgroups

\* a variant that matches on the address alone
RECURSIVE connect_policy_loop_ip_only(_, _, _)
connect_policy_loop_ip_only(dest_ip, dest_port, i) ==
    IF i >= 256 \/ i >= connect_num_rules THEN connect_default_policy
    ELSE LET rule == ConnectRuleLookup(i) IN
         IF ConnectRuleIsNull(i) \/ (rule.dest_ip # 0 /\ rule.dest_ip # dest_ip)
         THEN connect_policy_loop_ip_only(dest_ip, dest_port, i + 1)
         ELSE rule.action

\* a variant in which a rule that names a host applies only to an address
\* the DNS cache resolves to that name
RECURSIVE connect_policy_scan_hostnames(_, _, _, _, _, _)
connect_policy_scan_hostnames(rules, count, dflt, dest_ip, dest_port, i) ==
    IF i >= 256 \/ i >= count THEN dflt
    ELSE LET rule == ConnectRuleAt(rules, i) IN
         IF ConnectRuleIsNull(i)
         THEN connect_policy_scan_hostnames(rules, count, dflt, dest_ip, dest_port, i + 1)
         ELSE IF rule.dest_ip # 0 /\ rule.dest_ip # dest_ip
              THEN connect_policy_scan_hostnames(rules, count, dflt, dest_ip, dest_port, i + 1)
         ELSE IF rule.dest_port # 0 /\ rule.dest_port # dest_port
              THEN connect_policy_scan_hostnames(rules, count, dflt, dest_ip, dest_port, i + 1)
         ELSE IF rule.hostname_len > 0
                 /\ ~(dest_ip \in DOMAIN dns_cache /\ dns_cache[dest_ip] = rule.hostname)
              THEN connect_policy_scan_hostnames(rules, count, dflt, dest_ip, dest_port, i + 1)
         ELSE rule.action

\* the loop of check_connect_policy over the map contents (rules, count, dflt)
RECURSIVE connect_policy_scan(_, _, _, _, _, _)
connect_policy_scan(rules, count, dflt, dest_ip, dest_port, i) ==
    IF i >= 256 \/ i >= count THEN dflt
    ELSE LET rule == ConnectRuleAt(rules, i) IN
         IF ConnectRuleIsNull(i)
         THEN connect_policy_scan(rules, count, dflt, dest_ip, dest_port, i + 1)
         ELSE IF rule.dest_ip # 0 /\ rule.dest_ip # dest_ip
              THEN connect_policy_scan(rules, count, dflt, dest_ip, dest_port, i + 1)
         ELSE IF rule.dest_port # 0 /\ rule.dest_port # dest_port
              THEN connect_policy_scan(rules, count, dflt, dest_ip, dest_port, i + 1)
         ELSE rule.action

connect_policy_loop(dest_ip, dest_port, i) ==
    connect_policy_scan(connect_policy_rules, connect_num_rules, connect_default_policy,
                        dest_ip, dest_port, i)

\* check_connect_policy over the map contents (rules, count, dflt)
connect_policy_on(rules, count, dflt, dest_ip, dest_port) ==
    IF count <= 0 THEN dflt
    ELSE connect_policy_scan(rules, count, dflt, dest_ip, dest_port, 0)

\* a variant that denies when no rules are loaded, whatever the default policy
check_connect_policy_no_rules_deny(dest_ip, dest_port) ==
    IF connect_num_rules <= 0 THEN 0
    ELSE connect_policy_loop(dest_ip, dest_port, 0)

check_connect_policy(dest_ip, dest_port) ==
    IF connect_num_rules <= 0 THEN connect_default_policy
    ELSE connect_policy_loop(dest_ip, dest_port, 0)

\* the copy of the cached hostname into the zeroed local buffer (at most 127
\* bytes, stopping at the NUL), then into the event up to the NUL
RECURSIVE CopyHostname(_, _)
CopyHostname(cached, i) ==
    IF i >= MAX_HOSTNAME_LEN - 1 \/ Byte(cached, i) = 0 THEN <<>>
    ELSE <<Byte(cached, i)>> \o CopyHostname(cached, i + 1)

\* a variant that drops the record of a denied destination instead of
\* submitting it
process_network_event_discard_denied(call, cg, dest_ip, dest_port, family, reserve_ok) ==
    LET hostname == IF dest_ip \in DOMAIN dns_cache
                    THEN CopyHostname(dns_cache[dest_ip], 0) ELSE <<>>
        policy_result == check_connect_policy(dest_ip, dest_port)
    IN  IF ~reserve_ok
        THEN call @@ [stage |-> "noreserve", policy_result |-> policy_result,
                      ret |-> Verdict(policy_result), event |-> NoEvent]
        ELSE IF policy_result = 0
        THEN call @@ [stage |-> "submit", policy_result |-> policy_result,
                      ret |-> Verdict(policy_result), event |-> NoEvent]
        ELSE call @@ [stage |-> "submit", policy_result |-> policy_result,
                      ret |-> Verdict(policy_result),
                      event |-> [kind |-> "connect", cgroup_id |-> cg, family |-> family,
                                 dest_ip |-> dest_ip, dest_port |-> dest_port,
                                 dest_hostname |-> hostname,
                                 result |-> Verdict(policy_result)]]

\* what process_network_event leaves in `last`, given the call so far
process_network_event(call, cg, dest_ip, dest_port, family, reserve_ok) ==
    LET hostname == IF dest_ip \in DOMAIN dns_cache
                    THEN CopyHostname(dns_cache[dest_ip], 0) ELSE <<>>
        policy_result == check_connect_policy(dest_ip, dest_port)
    IN  IF ~reserve_ok
        THEN call @@ [stage |-> "noreserve", policy_result |-> policy_result,
                      ret |-> Verdict(policy_result), event |-> NoEvent]
        ELSE call @@ [stage |-> "submit", policy_result |-> policy_result,
                      ret |-> Verdict(policy_result),
                      event |-> [kind |-> "connect", cgroup_id |-> cg, family |-> family,
                                 dest_ip |-> dest_ip, dest_port |-> dest_port,
                                 dest_hostname |-> hostname,
                                 result |-> Verdict(policy_result)]]

\* SEC("lsm/socket_connect"): addr describes the user memory behind `address`:
\* whether its sa_family and the whole sockaddr_in can be read, and what they hold
\* a variant that judges destinations of every address family
lsm_connect_result_any_family(cg, addr, reserve_ok) ==
    LET call == [probe |-> "connect", cg |-> cg, addr |-> addr, reserve_ok |-> reserve_ok]
        early(stage) == call @@ [stage |-> stage, policy_result |-> 0, ret |-> 0,
                                 event |-> NoEvent]
    IN  IF ~is_connect_target_cgroup(cg) THEN early("gate")
        ELSE IF ~addr.family_ok THEN early("readfail")
        ELSE IF ~addr.addr_ok THEN early("readfail")
        ELSE process_network_event(call, cg, addr.ip, addr.port, addr.family, reserve_ok)

lsm_connect_result(cg, addr, reserve_ok) ==
    LET call == [probe |-> "connect", cg |-> cg, addr |-> addr, reserve_ok |-> reserve_ok]
        early(stage) == call @@ [stage |-> stage, policy_result |-> 0, ret |-> 0,
                                 event |-> NoEvent]
    IN  IF ~is_connect_target_cgroup(cg) THEN early("gate")
        ELSE IF ~addr.family_ok THEN early("readfail")
        ELSE IF addr.family # AF_INET THEN early("family")
        ELSE IF ~addr.addr_ok THEN early("readfail")
        ELSE process_network_event(call, cg, addr.ip, addr.port, addr.family, reserve_ok)

lsm_connect(cg, addr, reserve_ok) ==
    /\ attached = "connect"
    /\ last' = lsm_connect_result(cg, addr, reserve_ok)
    /\ UNCHANGED <<attached, openMaps, execCtlMaps, pending_exec_args, connectMaps, task>>

\* SEC("lsm/socket_sendmsg"): msg_ok is the read of msg->msg_name, name_null
\* its value, addr the kernel memory it points to
lsm_sendmsg_result(cg, msg_ok, name_null, addr, reserve_ok) ==
    LET call == [probe |-> "sendmsg", cg |-> cg, msg_ok |-> msg_ok,
                 name_null |-> name_null, addr |-> addr, reserve_ok |-> reserve_ok]
        early(stage) == call @@ [stage |-> stage, policy_result |-> 0, ret |-> 0,
                                 event |-> NoEvent]
    IN  IF ~is_connect_target_cgroup(cg) THEN early("gate")
        ELSE IF ~msg_ok THEN early("readfail")
        ELSE IF name_null THEN early("noname")
        ELSE IF ~addr.family_ok THEN early("readfail")
        ELSE IF addr.family # AF_INET THEN early("family")
        ELSE IF ~addr.addr_ok THEN early("readfail")
        ELSE process_network_event(call, cg, addr.ip, addr.port, addr.family, reserve_ok)

lsm_sendmsg(cg, msg_ok, name_null, addr, reserve_ok) ==
    /\ attached = "connect"
    /\ last' = lsm_sendmsg_result(cg, msg_ok, name_null, addr, reserve_ok)
    /\ UNCHANGED <<attached, openMaps, execCtlMaps, pending_exec_args, connectMaps, task>>

----------------------------------------------------------------------------
(* lsm_exec.bpf.c *)

\* max_entries of pending_exec_args is 1024; the exploration scales it to
\* one less than the number of tasks so that the map does fill up
PENDING_MAX_ENTRIES == MaxPid - 1

ZeroBuf == <<>>
ZeroExecRule == [action |-> 0, path_len |-> 0, path |-> <<>>, arg_count |-> 0,
                 args |-> <<ZeroBuf, ZeroBuf, ZeroBuf, ZeroBuf>>,
                 arg_lens |-> <<0, 0, 0, 0>>]

ExecRuleIsNull(key) == key >= 64
ExecRuleAt(rules, key) == IF key < Len(rules) THEN rules[key + 1] ELSE ZeroExecRule
ExecRuleLookup(key) == ExecRuleAt(exec_policy_rules, key)

\* a variant that skips the sentinel test
is_exec_target_cgroup_no_sentinel(cg) ==
    cg \in DOMAIN exec_allowed_cgroups /\ exec_allowed_cgroups[cg] = 1

is_exec_target_cgroup(cg) ==
    IF exec_target_cgroup = 0 THEN FALSE
    ELSE cg \in DOMAIN exec_allowed_cgroups /\ exec_allowed_cgroups[cg] = 1

Min16(len) == IF len < 16 THEN len ELSE 16

\* a variant in which a policy arg of length zero agrees with no argument
arg_match_loop_nonempty(actual, pattern, len, j) ==
    IF len = 0 THEN 0
    ELSE IF \A k \in j..(Min16(len) - 1) : Byte(actual, k) = Byte(pattern, k) THEN 1
    ELSE 0

\* the innermost loop: do the first min(len, 16) bytes agree
RECURSIVE arg_match_loop(_, _, _, _)
arg_match_loop(actual, pattern, len, j) ==
    IF ~(j < len /\ j < 16) THEN 1
    ELSE IF Byte(actual, j) # Byte(pattern, j) THEN 0
    ELSE arg_match_loop(actual, pattern, len, j + 1)

\* for (a = 1; a < pending->argc && a < 4; a++)
RECURSIVE blacklist_a_loop(_, _, _, _)
blacklist_a_loop(rule, pending, p, a) ==
    IF ~(a < pending.argc /\ a < 4) THEN FALSE
    ELSE IF arg_match_loop(pending.detailed_args[a + 1], rule.args[p + 1],
                           rule.arg_lens[p + 1], 0) = 1 THEN TRUE
    ELSE blacklist_a_loop(rule, pending, p, a + 1)

\* a variant that walks all four policy args of the rule
RECURSIVE blacklist_p_loop_four(_, _, _)
blacklist_p_loop_four(rule, pending, p) ==
    IF ~(p < rule.arg_count /\ p < 4) THEN FALSE
    ELSE IF blacklist_a_loop(rule, pending, p, 1) THEN TRUE
    ELSE blacklist_p_loop_four(rule, pending, p + 1)

\* for (p = 0; p < rule->arg_count && p < 3; p++)
RECURSIVE blacklist_p_loop(_, _, _)
blacklist_p_loop(rule, pending, p) ==
    IF ~(p < rule.arg_count /\ p < 3) THEN FALSE
    ELSE IF blacklist_a_loop(rule, pending, p, 1) THEN TRUE
    ELSE blacklist_p_loop(rule, pending, p + 1)

\* a variant that lets a deny rule with arguments hit when the task has no
\* pending entry
blacklist_hit_miss_denies(rule, pid, pmap) ==
    /\ rule.arg_count > 0
    /\ rule.action = 0
    /\ \/ pid \notin DOMAIN pmap
       \/ pmap[pid].argc > 1 /\ blacklist_p_loop(rule, pmap[pid], 0)

\* lines 206-226: does the argument blacklist of a path-matching rule deny;
\* pmap is the content of pending_exec_args at the lookup
blacklist_hit(rule, pid, pmap) ==
    /\ pid \in DOMAIN pmap
    /\ pmap[pid].argc > 1
    /\ rule.arg_count > 0
    /\ rule.action = 0
    /\ blacklist_p_loop(rule, pmap[pid], 0)

\* the loop of check_exec_policy over the array content `rules` with the
\* default-policy value dflt
RECURSIVE exec_policy_scan(_, _, _, _, _, _, _)
exec_policy_scan(rules, dflt, path, pid, n, i, pmap) ==
    IF ~(i < n /\ i < 64) THEN dflt
    ELSE LET rule == ExecRuleAt(rules, i) IN
         IF ExecRuleIsNull(i) \/ rule.path_len = 0 \/ rule.path_len > 64
         THEN exec_policy_scan(rules, dflt, path, pid, n, i + 1, pmap)
         ELSE IF simple_string_starts_with(path, rule.path, rule.path_len) = 1
         THEN IF rule.arg_count = 0 THEN rule.action
              ELSE IF blacklist_hit(rule, pid, pmap) THEN 0
              ELSE exec_policy_scan(rules, dflt, path, pid, n, i + 1, pmap)
         ELSE exec_policy_scan(rules, dflt, path, pid, n, i + 1, pmap)

exec_policy_loop(path, pid, n, i, pmap) ==
    exec_policy_scan(exec_policy_rules, exec_default_policy, path, pid, n, i, pmap)

\* check_exec_policy over the map contents (rules, count, dflt) and pmap
exec_policy_on(rules, count, dflt, pmap, path, pid) ==
    IF count = 0 THEN dflt
    ELSE exec_policy_scan(rules, dflt, path, pid, IF count > 64 THEN 64 ELSE count, 0, pmap)

\* check_exec_policy run against the map content pmap
exec_policy_with(pmap, path, pid) ==
    IF exec_num_rules = 0 THEN exec_default_policy
    ELSE exec_policy_loop(path, pid, IF exec_num_rules > 64 THEN 64 ELSE exec_num_rules,
                          0, pmap)

\* pid is bpf_get_current_pid_tgid() >> 32 of the calling task
check_exec_policy(path, pid) == exec_policy_with(pending_exec_args, path, pid)

ZeroArgs == <<ZeroBuf, ZeroBuf, ZeroBuf, ZeroBuf, ZeroBuf, ZeroBuf>>

\* what SEC("lsm/bprm_check_security") returns and emits; `pending` is the
\* entry of the calling pid as the program finds it (empty when absent)
lsm_exec_result(pid, cg, path, comm, reserve_ok) ==
    LET hit == pid \in DOMAIN pending_exec_args
        call == [probe |-> "exec", pid |-> pid, cg |-> cg, path |-> path, comm |-> comm,
                 reserve_ok |-> reserve_ok,
                 pending |-> IF hit THEN <<pending_exec_args[pid]>> ELSE <<>>]
        policy_result == check_exec_policy(path, pid)
    IN  IF ~is_exec_target_cgroup(cg)
        THEN call @@ [stage |-> "gate", policy_result |-> 0, ret |-> 0, event |-> NoEvent]
        ELSE IF ~reserve_ok
        THEN call @@ [stage |-> "noreserve", policy_result |-> policy_result,
                      ret |-> Verdict(policy_result), event |-> NoEvent]
        ELSE call @@ [stage |-> "submit", policy_result |-> policy_result,
                      ret |-> Verdict(policy_result),
                      event |-> [kind |-> "exec", pid |-> pid, cgroup_id |-> cg,
                                 comm |-> comm, path |-> path,
                                 argc |-> IF hit THEN pending_exec_args[pid].argc ELSE 0,
                                 detailed_args |-> IF hit
                                     THEN pending_exec_args[pid].detailed_args
                                     ELSE ZeroArgs,
                                 result |-> Verdict(policy_result)]]

\* bpf_map_delete_elem(&pending_exec_args, &pid)
pending_delete(pid) ==
    [k \in DOMAIN pending_exec_args \ {pid} |-> pending_exec_args[k]]

\* bpf_map_update_elem(&pending_exec_args, &pid, &pending, BPF_ANY): a new key
\* is refused when the map already holds max_entries keys
pending_update(pid, pending) ==
    IF pid \in DOMAIN pending_exec_args
       \/ Cardinality(DOMAIN pending_exec_args) < PENDING_MAX_ENTRIES
    THEN [k \in DOMAIN pending_exec_args \cup {pid} |->
            IF k = pid THEN pending ELSE pending_exec_args[k]]
    ELSE pending_exec_args

\* the first n bytes of a buffer
Take(buf, n) == SubSeq(buf, 1, IF Len(buf) < n THEN Len(buf) ELSE n)

\* the user memory behind ctx->argv: a sequence of slots, each a readable
\* string ("str"), a NULL pointer ("null"), a slot whose pointer cannot be
\* read ("fault") or a pointer to unreadable memory ("badstr"); the array
\* ends with a NULL pointer
ArgvSlot(uargv, i) == IF i < Len(uargv) THEN uargv[i + 1] ELSE [k |-> "null", s |-> <<>>]

\* the capture loop of lines 344-360; args are the strings captured so far.
\* bpf_probe_read_user_str(dst, 24, ptr) stores at most 23 bytes and a NUL.
RECURSIVE capture_loop(_, _, _)
capture_loop(uargv, i, args) ==
    IF i >= 6 THEN args
    ELSE LET slot == ArgvSlot(uargv, i) IN
         IF slot.k # "str" THEN args
         ELSE capture_loop(uargv, i + 1, Append(args, Take(slot.s, 23)))

\* the argument strings the call passes: the slots up to the NULL pointer
RECURSIVE GivenArgs(_, _)
GivenArgs(uargv, i) ==
    IF ArgvSlot(uargv, i).k = "null" THEN <<>>
    ELSE <<ArgvSlot(uargv, i)>> \o GivenArgs(uargv, i + 1)

\* pad the captured strings to the six slots of detailed_args
PadArgs(args) == [i \in 1..6 |-> IF i <= Len(args) THEN args[i] ELSE ZeroBuf]

\* the struct pending_exec_args the tracepoint builds (timestamp and
\* original_path are written but never read by a program and are left out)
build_pending(argv_null, uargv, comm) ==
    LET args == IF argv_null THEN <<>> ELSE capture_loop(uargv, 0, <<>>) IN
    IF Len(args) = 0
    THEN [argc |-> 1, detailed_args |-> PadArgs(<<Take(CStr(comm), 15)>>)]
    ELSE [argc |-> Len(args), detailed_args |-> PadArgs(args)]

IdleTask == [pc |-> "idle", argv |-> <<>>, tp |-> <<>>, stored |-> FALSE]

\* does bpf_map_update_elem(&pending_exec_args, &pid, ..., BPF_ANY) succeed
pending_has_room(pid) ==
    \/ pid \in DOMAIN pending_exec_args
    \/ Cardinality(DOMAIN pending_exec_args) < PENDING_MAX_ENTRIES

\* SEC("tracepoint/syscalls/sys_enter_execve"): the task enters execve(); the
\* kernel runs one execve per task at a time.  The task is the thread tid of
\* the thread group pid: bpf_get_current_pid_tgid() >> 32 is the thread-group
\* id, which the threads of a process share.  task[tid] remembers the argv
\* strings of the call, the record its tracepoint built if it passed the
\* gate, and whether the map took the record.
trace_sys_enter_execve_thread(tid, pid, cg, argv_null, uargv, comm) ==
    /\ attached = "exec"
    /\ task[tid].pc = "idle"
    /\ LET pending == build_pending(argv_null, uargv, comm)
           given == IF argv_null THEN <<>> ELSE GivenArgs(uargv, 0)
           call == [probe |-> "tracepoint", tid |-> tid, pid |-> pid, cg |-> cg,
                    comm |-> comm, ret |-> 0, event |-> NoEvent]
       IN  IF ~is_exec_target_cgroup(cg)
           THEN /\ last' = call @@ [stage |-> "gate"]
                /\ task' = [task EXCEPT ![tid] =
                              [pc |-> "execve", argv |-> given, tp |-> <<>>,
                               stored |-> FALSE]]
                /\ UNCHANGED pending_exec_args
           ELSE /\ last' = call @@ [stage |-> "stored"]
                /\ task' = [task EXCEPT ![tid] =
                              [pc |-> "execve", argv |-> given, tp |-> <<pending>>,
                               stored |-> pending_has_room(pid)]]
                /\ pending_exec_args' = pending_update(pid, pending)
    /\ UNCHANGED <<attached, openMaps, execCtlMaps, connectMaps>>

\* the tracepoint in a single-threaded process: the thread is the group leader
trace_sys_enter_execve(pid, cg, argv_null, uargv, comm) ==
    trace_sys_enter_execve_thread(pid, pid, cg, argv_null, uargv, comm)

\* SEC("lsm/bprm_check_security"): runs inside an execve of the task, once per
\* binary the kernel loads for it (script interpreters are checked in turn)
\* a variant that leaves the correlation entry in the map
lsm_exec_thread_keep_entry(tid, pid, cg, path, comm, reserve_ok) ==
    /\ attached = "exec"
    /\ task[tid].pc = "execve"
    /\ last' = lsm_exec_result(pid, cg, path, comm, reserve_ok) @@ [tid |-> tid]
    /\ UNCHANGED <<attached, openMaps, execCtlMaps, connectMaps, task, pending_exec_args>>

\* a variant that empties the correlation map once the event is reserved
lsm_exec_thread_clear_map(tid, pid, cg, path, comm, reserve_ok) ==
    /\ attached = "exec"
    /\ task[tid].pc = "execve"
    /\ last' = lsm_exec_result(pid, cg, path, comm, reserve_ok) @@ [tid |-> tid]
    /\ pending_exec_args' =
         IF is_exec_target_cgroup(cg) /\ reserve_ok THEN <<>> ELSE pending_exec_args
    /\ UNCHANGED <<attached, openMaps, execCtlMaps, connectMaps, task>>

lsm_exec_thread(tid, pid, cg, path, comm, reserve_ok) ==
    /\ attached = "exec"
    /\ task[tid].pc = "execve"
    /\ last' = lsm_exec_result(pid, cg, path, comm, reserve_ok) @@ [tid |-> tid]
    /\ pending_exec_args' =
         IF is_exec_target_cgroup(cg) /\ reserve_ok /\ pid \in DOMAIN pending_exec_args
         THEN pending_delete(pid) ELSE pending_exec_args
    /\ UNCHANGED <<attached, openMaps, execCtlMaps, connectMaps, task>>

\* the bprm check in a single-threaded process
lsm_exec(pid, cg, path, comm, reserve_ok) ==
    lsm_exec_thread(pid, pid, cg, path, comm, reserve_ok)

\* the execve call of the task ends (the new image runs, or the call failed,
\* possibly before any bprm check)
ExecveReturn(pid) ==
    /\ attached = "exec"
    /\ task[pid].pc = "execve"
    /\ task' = [task EXCEPT ![pid] = IdleTask]
    /\ last' = NoCall
    /\ UNCHANGED <<attached, openMaps, execCtlMaps, pending_exec_args, connectMaps>>

----------------------------------------------------------------------------
(* The controller: user space writes one map entry at a time.  Each         *)
(* disjunct is one bpf_map_update_elem / bpf_map_delete_elem on a map.      *)

MapSet(m, k, v) == [x \in DOMAIN m \cup {k} |-> IF x = k THEN v ELSE m[x]]
MapDel(m, k) == [x \in DOMAIN m \ {k} |-> m[x]]

CtlOpenGate(cgs) ==
    /\ attached = "open"
    /\ \/ \E v \in SentinelValues : target_cgroup' = v /\ UNCHANGED allowed_cgroups
       \/ \E cg \in cgs, v \in AllowedValues :
             allowed_cgroups' = MapSet(allowed_cgroups, cg, v) /\ UNCHANGED target_cgroup
       \/ \E cg \in cgs :
             allowed_cgroups' = MapDel(allowed_cgroups, cg) /\ UNCHANGED target_cgroup
    /\ last' = NoCall
    /\ UNCHANGED <<attached, policy_rules, num_rules, default_policy, execCtlMaps,
                   pending_exec_args, connectMaps, task>>

CtlOpenPolicy(rules, counts, defaults) ==
    /\ attached = "open"
    /\ \/ \E i \in 1..MaxRules, r \in rules :
             policy_rules' = [policy_rules EXCEPT ![i] = r]
             /\ UNCHANGED <<num_rules, default_policy>>
       \/ \E n \in counts : num_rules' = n /\ UNCHANGED <<policy_rules, default_policy>>
       \/ \E d \in defaults : default_policy' = d /\ UNCHANGED <<policy_rules, num_rules>>
    /\ last' = NoCall
    /\ UNCHANGED <<attached, target_cgroup, allowed_cgroups, execCtlMaps,
                   pending_exec_args, connectMaps, task>>

CtlExecGate(cgs) ==
    /\ attached = "exec"
    /\ \/ \E v \in SentinelValues :
             exec_target_cgroup' = v /\ UNCHANGED exec_allowed_cgroups
       \/ \E cg \in cgs, v \in AllowedValues :
             exec_allowed_cgroups' = MapSet(exec_allowed_cgroups, cg, v)
             /\ UNCHANGED exec_target_cgroup
       \/ \E cg \in cgs :
             exec_allowed_cgroups' = MapDel(exec_allowed_cgroups, cg)
             /\ UNCHANGED exec_target_cgroup
    /\ last' = NoCall
    /\ UNCHANGED <<attached, openMaps, exec_policy_rules, exec_num_rules,
                   exec_default_policy, pending_exec_args, connectMaps, task>>

CtlExecPolicy(rules, counts, defaults) ==
    /\ attached = "exec"
    /\ \/ \E i \in 1..MaxRules, r \in rules :
             exec_policy_rules' = [exec_policy_rules EXCEPT ![i] = r]
             /\ UNCHANGED <<exec_num_rules, exec_default_policy>>
       \/ \E n \in counts :
             exec_num_rules' = n /\ UNCHANGED <<exec_policy_rules, exec_default_policy>>
       \/ \E d \in defaults :
             exec_default_policy' = d /\ UNCHANGED <<exec_policy_rules, exec_num_rules>>
    /\ last' = NoCall
    /\ UNCHANGED <<attached, openMaps, exec_target_cgroup, exec_allowed_cgroups,
                   pending_exec_args, connectMaps, task>>

CtlConnectGate(cgs) ==
    /\ attached = "connect"
    /\ \/ \E v \in SentinelValues :
             connect_target_cgroup' = v /\ UNCHANGED connect_allowed_cgroups
       \/ \E cg \in cgs, v \in AllowedValues :
             connect_allowed_cgroups' = MapSet(connect_allowed_cgroups, cg, v)
             /\ UNCHANGED connect_target_cgroup
       \/ \E cg \in cgs :
             connect_allowed_cgroups' = MapDel(connect_allowed_cgroups, cg)
             /\ UNCHANGED connect_target_cgroup
    /\ last' = NoCall
    /\ UNCHANGED <<attached, openMaps, execCtlMaps, pending_exec_args,
                   connect_policy_rules, connect_num_rules, connect_default_policy,
                   dns_cache, task>>

CtlConnectPolicy(rules, counts, defaults) ==
    /\ attached = "connect"
    /\ \/ \E i \in 1..MaxRules, r \in rules :
             connect_policy_rules' = [connect_policy_rules EXCEPT ![i] = r]
             /\ UNCHANGED <<connect_num_rules, connect_default_policy>>
       \/ \E n \in counts :
             connect_num_rules' = n
             /\ UNCHANGED <<connect_policy_rules, connect_default_policy>>
       \/ \E d \in defaults :
             connect_default_policy' = d
             /\ UNCHANGED <<connect_policy_rules, connect_num_rules>>
    /\ last' = NoCall
    /\ UNCHANGED <<attached, openMaps, execCtlMaps, pending_exec_args,
                   connect_target_cgroup, connect_allowed_cgroups, dns_cache, task>>

\* the DNS observer records a name for an address
DnsObserve(ips, names) ==
    /\ attached = "connect"
    /\ \E ip \in ips, h \in names : dns_cache' = MapSet(dns_cache, ip, h)
    /\ last' = NoCall
    /\ UNCHANGED <<attached, openMaps, execCtlMaps, pending_exec_args,
                   connect_target_cgroup, connect_allowed_cgroups, connect_policy_rules,
                   connect_num_rules, connect_default_policy, task>>

----------------------------------------------------------------------------
(* Inputs of the exploration *)

Objects == {"open", "exec", "connect"}
\* the cgroup the controller registers; the other cgroup is never in a map
RegisteredCgroups == {1}

\* "/a", "/b", "/ab", "net:[1]"
PathA == <<47, 97>>
PathB == <<47, 98>>
PathAB == <<47, 97, 98>>
PathNs == <<110, 101, 116, 58, 91, 49, 93>>
\* "sh", "apt-get"
CommSh == <<115, 104>>
CommAptGet == <<97, 112, 116, 45, 103, 101, 116>>
\* "x", "-c", "-v", "-cv"
ArgX == <<120>>
ArgC == <<45, 99>>
ArgV == <<45, 118>>
ArgCV == <<45, 99, 118>>

Str(s) == [k |-> "str", s |-> s]

OpenRule(action, operation, path) ==
    [action |-> action, operation |-> operation, path_len |-> Len(path), path |-> path]
ExecRule(action, path, args) ==
    [action |-> action, path_len |-> Len(path), path |-> path, arg_count |-> Len(args),
     args |-> [i \in 1..4 |-> IF i <= Len(args) THEN args[i] ELSE ZeroBuf],
     arg_lens |-> [i \in 1..4 |-> IF i <= Len(args) THEN Len(args[i]) ELSE 0]]
ConnectRule(action, ip, port) ==
    [action |-> action, dest_ip |-> ip, dest_port |-> port,
     hostname |-> <<>>, hostname_len |-> 0, is_wildcard |-> 0]
Addr(fok, fam, aok, ip, port) ==
    [family_ok |-> fok, family |-> fam, addr_ok |-> aok, ip |-> ip, port |-> port]

Counts == 0..MaxRules
Defaults == {0, 1}
ReserveOutcomes == {TRUE, FALSE}
ZeroSlots(zero) == [i \in 1..MaxRules |-> zero]

\* what the controller and the tasks do in a run of the whole system
OpenRules == {ZeroPolicyRule, OpenRule(0, OP_OPEN, PathA)}
OpenPaths == {PathA, PathB, PathNs}
OpenModes == {FMODE_READ, FMODE_READ + FMODE_WRITE}
OpenComms == {CommSh, CommAptGet}
ExecRules == {ZeroExecRule, ExecRule(0, PathA, <<ArgC>>)}
ExecPaths == {PathA, PathB}
ExecComms == {CommSh}
ExecArgvs == {<<Str(ArgX), Str(ArgC)>>}
ConnectRules == {ZeroConnectRule, ConnectRule(1, 1, 0)}
ConnectAddrs == {Addr(TRUE, AF_INET, TRUE, 1, 80), Addr(TRUE, AF_INET, TRUE, 2, 80),
                 Addr(FALSE, 0, FALSE, 0, 0), Addr(TRUE, AF_INET6, TRUE, 0, 0),
                 Addr(TRUE, AF_INET, FALSE, 0, 0)}
\* msg_name readable and set; msg_name NULL; msg unreadable
SendmsgHeaders == {<<TRUE, FALSE>>, <<TRUE, TRUE>>, <<FALSE, FALSE>>}
SendmsgAddrs == {Addr(TRUE, AF_INET, TRUE, 1, 80), Addr(TRUE, AF_INET6, TRUE, 0, 0)}
DnsIps == {1}
DnsNames == {<<104>>}

----------------------------------------------------------------------------
(* The whole system: every map starts zeroed or empty, as bpf object load   *)
(* leaves it                                                                *)

ZeroOpenMaps ==
    /\ target_cgroup = 0 /\ allowed_cgroups = <<>>
    /\ policy_rules = ZeroSlots(ZeroPolicyRule) /\ num_rules = 0 /\ default_policy = 0

ZeroExecMaps ==
    /\ exec_target_cgroup = 0 /\ exec_allowed_cgroups = <<>>
    /\ exec_policy_rules = ZeroSlots(ZeroExecRule) /\ exec_num_rules = 0
    /\ exec_default_policy = 0

ZeroConnectMaps ==
    /\ connect_target_cgroup = 0 /\ connect_allowed_cgroups = <<>>
    /\ connect_policy_rules = ZeroSlots(ZeroConnectRule) /\ connect_num_rules = 0
    /\ connect_default_policy = 0
    /\ dns_cache = <<>>

ZeroMaps == ZeroOpenMaps /\ ZeroExecMaps /\ ZeroConnectMaps /\ pending_exec_args = <<>>

Init ==
    /\ attached \in Objects
    /\ ZeroMaps
    /\ task = [p \in Pids |-> IdleTask]
    /\ last = NoCall

FileOpen(cgs, paths, modes, comms, reserves) ==
    \E cg \in cgs, path \in paths, f_mode \in modes, comm \in comms,
       reserve_ok \in reserves :
        lsm_open(cg, path, f_mode, comm, reserve_ok)

SysEnterExecve(pids, cgs, argvs, comms) ==
    \E pid \in pids, cg \in cgs, argv_null \in {FALSE}, uargv \in argvs, comm \in comms :
        trace_sys_enter_execve(pid, cg, argv_null, uargv, comm)

BprmCheck(pids, cgs, paths, comms, reserves) ==
    \E pid \in pids, cg \in cgs, path \in paths, comm \in comms,
       reserve_ok \in reserves :
        lsm_exec(pid, cg, path, comm, reserve_ok)

ExecveDone(pids) == \E pid \in pids : ExecveReturn(pid)

\* execve calls by the threads tids of the one thread group pid
ThreadSysEnterExecve(tids, pid, cgs, argvs, comms) ==
    \E tid \in tids, cg \in cgs, uargv \in argvs, comm \in comms :
        trace_sys_enter_execve_thread(tid, pid, cg, FALSE, uargv, comm)

ThreadBprmCheck(tids, pid, cgs, paths, comms, reserves) ==
    \E tid \in tids, cg \in cgs, path \in paths, comm \in comms,
       reserve_ok \in reserves :
        lsm_exec_thread(tid, pid, cg, path, comm, reserve_ok)

SocketConnect(cgs, addrs, reserves) ==
    \E cg \in cgs, addr \in addrs, reserve_ok \in reserves :
        lsm_connect(cg, addr, reserve_ok)

SocketSendmsg(cgs, hdrs, addrs, reserves) ==
    \E cg \in cgs, hdr \in hdrs, addr \in addrs, reserve_ok \in reserves :
        lsm_sendmsg(cg, hdr[1], hdr[2], addr, reserve_ok)

Next ==
    \/ CtlOpenGate(RegisteredCgroups)
    \/ CtlOpenPolicy(OpenRules, Counts, Defaults)
    \/ FileOpen(Cgroups, OpenPaths, OpenModes, OpenComms, ReserveOutcomes)
    \/ CtlExecGate(RegisteredCgroups)
    \/ CtlExecPolicy(ExecRules, Counts, Defaults)
    \/ SysEnterExecve({1}, Cgroups, ExecArgvs, ExecComms)
    \/ BprmCheck({1}, Cgroups, ExecPaths, ExecComms, ReserveOutcomes)
    \/ ExecveDone({1})
    \/ CtlConnectGate(RegisteredCgroups)
    \/ CtlConnectPolicy(ConnectRules, Counts, Defaults)
    \/ DnsObserve(DnsIps, DnsNames)
    \/ SocketConnect(Cgroups, ConnectAddrs, ReserveOutcomes)
    \/ SocketSendmsg(Cgroups, SendmsgHeaders, SendmsgAddrs, ReserveOutcomes)

Spec == Init /\ [][Next]_vars

----------------------------------------------------------------------------
(* Execve correlation: the controller has registered cgroup 1 and loaded a  *)
(* policy; MaxPid tasks run execve calls against a correlation map that     *)
(* holds fewer entries than there are tasks                                 *)

InitExec ==
    /\ attached = "exec"
    /\ ZeroOpenMaps /\ ZeroConnectMaps
    /\ exec_target_cgroup = 1 /\ exec_allowed_cgroups = (1 :> 1)
    /\ \E r \in ExecRules :
          exec_policy_rules = [i \in 1..MaxRules |-> IF i = 1 THEN r ELSE ZeroExecRule]
    /\ exec_num_rules \in {0, 1}
    /\ exec_default_policy \in Defaults
    /\ pending_exec_args = <<>>
    /\ task = [p \in Pids |-> IdleTask]
    /\ last = NoCall

NextExec ==
    \/ SysEnterExecve(Pids, Cgroups, ExecArgvs, ExecComms)
    \/ BprmCheck(Pids, Cgroups, ExecPaths, ExecComms, ReserveOutcomes)
    \/ ExecveDone(Pids)

SpecExec == InitExec /\ [][NextExec]_vars

----------------------------------------------------------------------------
(* The matchers as functions of their inputs: Init draws a loaded policy    *)
(* with cgroup 1 registered, and the probes run against it                  *)

\* a 65-byte path of 'p' characters, and num_rules values beyond the arrays
LongPath == [i \in 1..65 |-> 112]
MatcherCounts == Counts \cup {MaxRules + 1, 65}
\* default-policy values, one of them outside {0, 1}
MatcherDefaults == Defaults \cup {2}

\* "/A", "y", sixteen 'z' followed by 'a' or by 'b'
PathUpperA == <<47, 65>>
ArgY == <<121>>
Arg17a == [i \in 1..17 |-> IF i <= 16 THEN 122 ELSE 97]
Arg17b == [i \in 1..17 |-> IF i <= 16 THEN 122 ELSE 98]

OpenMatcherRules ==
    {ZeroPolicyRule,
     OpenRule(0, OP_OPEN, PathA),
     OpenRule(1, OP_OPEN_RO, PathA),
     OpenRule(0, OP_OPEN_RW, PathAB),
     [action |-> 1, operation |-> OP_OPEN, path_len |-> 1, path |-> PathA],
     OpenRule(1, OP_OPEN, LongPath)}
OpenMatcherPaths == {PathA, PathB, PathAB, PathUpperA, LongPath}
OpenMatcherModes == {0, FMODE_READ, FMODE_WRITE, FMODE_READ + FMODE_WRITE}

InitOpenMatcher ==
    /\ attached = "open"
    /\ ZeroExecMaps /\ ZeroConnectMaps /\ pending_exec_args = <<>>
    /\ target_cgroup = 1 /\ allowed_cgroups = (1 :> 1)
    /\ policy_rules \in [1..MaxRules -> OpenMatcherRules]
    /\ num_rules \in MatcherCounts
    /\ default_policy \in MatcherDefaults
    /\ task = [p \in Pids |-> IdleTask]
    /\ last = NoCall

\* one invocation against each drawn policy
NextOpenMatcher ==
    /\ last = NoCall
    /\ FileOpen({1}, OpenMatcherPaths, OpenMatcherModes, {CommSh}, {TRUE})

SpecOpenMatcher == InitOpenMatcher /\ [][NextOpenMatcher]_vars

\* Opens of namespace-like paths and opens by package managers.  The gate is
\* open for cgroup 1, slot 0 of the policy is drawn at Init, each behaviour
\* runs lsm_open once.
Digits(n) == [i \in 1..n |-> 49]
\* "net:["
NetPrefix == <<110, 101, 116, 58, 91>>
\* "net:[1]x", "net:[]", "net:[1", "net:[1a]", "cgroup:[11]", "xnet:[1]"
PathNsTail == NetPrefix \o <<49, 93, 120>>
PathNsNoDigit == NetPrefix \o <<93>>
PathNsOpen == NetPrefix \o <<49>>
PathNsLetter == NetPrefix \o <<49, 97, 93>>
PathNsCgroup == <<99, 103, 114, 111, 117, 112, 58, 91, 49, 49, 93>>
PathNsShifted == <<120>> \o PathNs
\* "net:[" followed by fifteen, by sixteen digits and "]"
PathNs15 == NetPrefix \o Digits(15) \o <<93>>
PathNs16 == NetPrefix \o Digits(16) \o <<93>>
\* "apt-get2", "apt", "dpkg", "dpkg-deb", "updatedb", "xdpkg"
CommAptGet2 == CommAptGet \o <<50>>
CommApt == <<97, 112, 116>>
CommDpkg == <<100, 112, 107, 103>>
CommDpkgDeb == CommDpkg \o <<45, 100, 101, 98>>
CommUpdatedb == <<117, 112, 100, 97, 116, 101, 100, 98>>
CommXDpkg == <<120>> \o CommDpkg

BypassRules == {OpenRule(0, OP_OPEN, NetPrefix), OpenRule(0, OP_OPEN, PathA),
                OpenRule(1, OP_OPEN, PathA)}
BypassPaths == {PathA, PathNs, PathNsTail, PathNsNoDigit, PathNsOpen, PathNsLetter,
                PathNsCgroup, PathNsShifted, PathNs15, PathNs16}
BypassComms == {CommSh, CommAptGet, CommAptGet2, CommApt, CommDpkg, CommDpkgDeb,
                CommUpdatedb, CommXDpkg}

InitOpenBypass ==
    /\ attached = "open"
    /\ ZeroExecMaps /\ ZeroConnectMaps /\ pending_exec_args = <<>>
    /\ target_cgroup = 1 /\ allowed_cgroups = (1 :> 1)
    /\ \E r \in BypassRules :
          policy_rules = [i \in 1..MaxRules |-> IF i = 1 THEN r ELSE ZeroPolicyRule]
    /\ num_rules \in {0, 1}
    /\ default_policy \in Defaults
    /\ task = [p \in Pids |-> IdleTask]
    /\ last = NoCall

NextOpenBypass ==
    /\ last = NoCall
    /\ FileOpen({1}, BypassPaths, {FMODE_READ}, BypassComms, ReserveOutcomes)

SpecOpenBypass == InitOpenBypass /\ [][NextOpenBypass]_vars

ConnectMatcherRules ==
    {ZeroConnectRule, ConnectRule(1, 1, 0), ConnectRule(0, 0, 80),
     ConnectRule(1, 2, 443), ConnectRule(1, 0, 0)}
ConnectMatcherAddrs ==
    {Addr(TRUE, AF_INET, TRUE, ip, port) : ip \in {1, 2}, port \in {80, 443}}

InitConnectMatcher ==
    /\ attached = "connect"
    /\ ZeroOpenMaps /\ ZeroExecMaps /\ pending_exec_args = <<>>
    /\ connect_target_cgroup = 1 /\ connect_allowed_cgroups = (1 :> 1)
    /\ connect_policy_rules \in [1..MaxRules -> ConnectMatcherRules]
    /\ connect_num_rules \in MatcherCounts \cup {-1}
    /\ connect_default_policy \in Defaults
    /\ dns_cache = <<>>
    /\ task = [p \in Pids |-> IdleTask]
    /\ last = NoCall

NextConnectMatcher ==
    \/ last = NoCall /\ SocketConnect({1}, ConnectMatcherAddrs, {TRUE})
    \/ last = NoCall /\ SocketSendmsg({1}, {<<TRUE, FALSE>>}, ConnectMatcherAddrs, {TRUE})

SpecConnectMatcher == InitConnectMatcher /\ [][NextConnectMatcher]_vars

ExecMatcherRules ==
    {ExecRule(1, PathA, <<>>),
     ExecRule(0, PathA, <<ArgC>>),
     ExecRule(1, PathA, <<ArgC>>),
     ExecRule(0, PathA, <<ArgY, ArgY, ArgY, ArgV>>),
     ExecRule(0, PathB, <<Arg17a>>),
     ExecRule(1, LongPath, <<>>)}
ExecMatcherPaths == {PathA, PathB, PathAB, LongPath}
ExecMatcherArgvs ==
    {<<Str(ArgX)>>,
     <<Str(ArgX), Str(ArgC)>>,
     <<Str(ArgX), Str(ArgV)>>,
     <<Str(ArgX), Str(ArgCV)>>,
     <<Str(ArgX), Str(ArgX), Str(ArgX), Str(ArgX), Str(ArgC)>>,
     <<Str(ArgX), Str(Arg17b)>>}

InitExecMatcher ==
    /\ attached = "exec"
    /\ ZeroOpenMaps /\ ZeroConnectMaps
    /\ exec_target_cgroup = 1 /\ exec_allowed_cgroups = (1 :> 1)
    /\ exec_policy_rules \in [1..MaxRules -> ExecMatcherRules]
    /\ exec_num_rules \in MatcherCounts
    /\ exec_default_policy \in Defaults
    /\ pending_exec_args = <<>>
    /\ task = [p \in Pids |-> IdleTask]
    /\ last = NoCall

\* one execve call against each drawn policy
NextExecMatcher ==
    \/ SysEnterExecve({1}, {1}, ExecMatcherArgvs, ExecComms)
    \/ last.probe = "tracepoint" /\ BprmCheck({1}, {1}, ExecMatcherPaths, ExecComms, {TRUE})

SpecExecMatcher == InitExecMatcher /\ [][NextExecMatcher]_vars

\* the three matchers side by side: one of the three objects is attached,
\* with a drawn policy
InitMatchers == InitOpenMatcher \/ InitExecMatcher \/ InitConnectMatcher

NextMatchers == NextOpenMatcher \/ NextExecMatcher \/ NextConnectMatcher

SpecMatchers == InitMatchers /\ [][NextMatchers]_vars

\* Correlation misses: two policy slots are drawn at Init, the tasks enter
\* execve in a monitored or an unmonitored cgroup, and the bprm check runs in
\* the monitored one
MissRules ==
    {ExecRule(1, PathA, <<>>), ExecRule(0, PathA, <<>>),
     ExecRule(0, PathA, <<ArgC>>), ExecRule(1, PathA, <<ArgC>>)}

InitExecMiss ==
    /\ attached = "exec"
    /\ ZeroOpenMaps /\ ZeroConnectMaps
    /\ exec_target_cgroup = 1 /\ exec_allowed_cgroups = (1 :> 1)
    /\ \E r1 \in MissRules, r2 \in MissRules :
          exec_policy_rules = [i \in 1..MaxRules |->
                                 IF i = 1 THEN r1 ELSE IF i = 2 THEN r2 ELSE ZeroExecRule]
    /\ exec_num_rules = 2
    /\ exec_default_policy \in Defaults
    /\ pending_exec_args = <<>>
    /\ task = [p \in Pids |-> IdleTask]
    /\ last = NoCall

NextExecMiss ==
    \/ SysEnterExecve(Pids, Cgroups, ExecArgvs, ExecComms)
    \/ BprmCheck(Pids, {1}, ExecPaths, ExecComms, {TRUE})

SpecExecMiss == InitExecMiss /\ [][NextExecMiss]_vars

\* Threads of one process: every task is a thread of thread group 1 and
\* calls execve with its own arguments
ThreadArgvs == {<<Str(ArgX), Str(ArgC)>>, <<Str(ArgX), Str(ArgV)>>}

InitThreads == InitExec

NextThreads ==
    \/ ThreadSysEnterExecve(Pids, 1, {1}, ThreadArgvs, ExecComms)
    \/ ThreadBprmCheck(Pids, 1, {1}, ExecPaths, ExecComms, ReserveOutcomes)
    \/ ExecveDone(Pids)

SpecThreads == InitThreads /\ [][NextThreads]_vars

\* Policy replacement: the controller moves the maps between two complete
\* policies, one map entry per write, in either direction, while probes run
Slots(r1, r2, zero) == [i \in 1..MaxRules |-> IF i = 1 THEN r1 ELSE IF i = 2 THEN r2 ELSE zero]

\* allow everything but "/b"; allow only "/a"
OldOpenPolicy ==
    [rules |-> Slots(OpenRule(0, OP_OPEN, PathB), ZeroPolicyRule, ZeroPolicyRule),
     count |-> 1, dflt |-> 1]
NewOpenPolicy ==
    [rules |-> Slots(OpenRule(1, OP_OPEN, PathA), OpenRule(0, OP_OPEN, PathB), ZeroPolicyRule),
     count |-> 2, dflt |-> 0]
\* allow everything but address 2; allow only address 1
OldConnectPolicy ==
    [rules |-> Slots(ConnectRule(0, 2, 0), ZeroConnectRule, ZeroConnectRule),
     count |-> 1, dflt |-> 1]
NewConnectPolicy ==
    [rules |-> Slots(ConnectRule(1, 1, 0), ConnectRule(0, 2, 0), ZeroConnectRule),
     count |-> 2, dflt |-> 0]

\* every map entry holds its value of one of the two policies
Entrywise(rules, count, dflt, P, Q) ==
    /\ \A i \in 1..MaxRules : rules[i] \in {P.rules[i], Q.rules[i]}
    /\ count \in {P.count, Q.count}
    /\ dflt \in {P.dflt, Q.dflt}

ReplaceOpenRules == {OldOpenPolicy.rules[i] : i \in 1..MaxRules}
                        \cup {NewOpenPolicy.rules[i] : i \in 1..MaxRules}
ReplaceConnectRules == {OldConnectPolicy.rules[i] : i \in 1..MaxRules}
                           \cup {NewConnectPolicy.rules[i] : i \in 1..MaxRules}
ReplaceAddrs == {Addr(TRUE, AF_INET, TRUE, 1, 80), Addr(TRUE, AF_INET, TRUE, 2, 80),
                 Addr(TRUE, AF_INET, TRUE, 3, 80)}

InitReplace ==
    /\ attached \in {"open", "connect"}
    /\ ZeroExecMaps /\ pending_exec_args = <<>>
    /\ IF attached = "open"
       THEN /\ ZeroConnectMaps
            /\ target_cgroup = 1 /\ allowed_cgroups = (1 :> 1)
            /\ \E P \in {OldOpenPolicy, NewOpenPolicy} :
                  policy_rules = P.rules /\ num_rules = P.count /\ default_policy = P.dflt
       ELSE /\ ZeroOpenMaps
            /\ connect_target_cgroup = 1 /\ connect_allowed_cgroups = (1 :> 1)
            /\ dns_cache = <<>>
            /\ \E P \in {OldConnectPolicy, NewConnectPolicy} :
                  /\ connect_policy_rules = P.rules
                  /\ connect_num_rules = P.count
                  /\ connect_default_policy = P.dflt
    /\ task = [p \in Pids |-> IdleTask]
    /\ last = NoCall

NextReplace ==
    \/ /\ CtlOpenPolicy(ReplaceOpenRules, {OldOpenPolicy.count, NewOpenPolicy.count},
                        {OldOpenPolicy.dflt, NewOpenPolicy.dflt})
       /\ Entrywise(policy_rules', num_rules', default_policy', OldOpenPolicy, NewOpenPolicy)
    \/ FileOpen({1}, {PathA, PathB, PathAB}, OpenModes, {CommSh}, {TRUE})
    \/ /\ CtlConnectPolicy(ReplaceConnectRules,
                           {OldConnectPolicy.count, NewConnectPolicy.count},
                           {OldConnectPolicy.dflt, NewConnectPolicy.dflt})
       /\ Entrywise(connect_policy_rules', connect_num_rules', connect_default_policy',
                    OldConnectPolicy, NewConnectPolicy)
    \/ SocketConnect({1}, ReplaceAddrs, {TRUE})

SpecReplace == InitReplace /\ [][NextReplace]_vars

\* Host names: rules that carry hostname fields, and a DNS cache the
\* observer fills while connections are judged
WithHostname(rule, h, w) ==
    [rule EXCEPT !.hostname = h, !.hostname_len = Len(h), !.is_wildcard = w]
\* "h", "g", "*.h"
NameH == <<104>>
NameG == <<103>>
NameWild == <<42, 46, 104>>
HostnameFields == {<<<<>>, 0>>, <<NameH, 0>>, <<NameG, 0>>, <<NameWild, 1>>}
HostnameRules ==
    {ConnectRule(0, 1, 0), WithHostname(ConnectRule(0, 1, 0), NameG, 0),
     WithHostname(ConnectRule(1, 0, 80), NameH, 0),
     WithHostname(ConnectRule(1, 2, 0), NameWild, 1)}
HostnameAddrs == {Addr(TRUE, AF_INET, TRUE, ip, 80) : ip \in {1, 2}}

InitHostname ==
    /\ attached = "connect"
    /\ ZeroOpenMaps /\ ZeroExecMaps /\ pending_exec_args = <<>>
    /\ connect_target_cgroup = 1 /\ connect_allowed_cgroups = (1 :> 1)
    /\ connect_policy_rules \in [1..MaxRules -> HostnameRules]
    /\ connect_num_rules \in Counts
    /\ connect_default_policy \in Defaults
    /\ dns_cache = <<>>
    /\ task = [p \in Pids |-> IdleTask]
    /\ last = NoCall

NextHostname ==
    \/ DnsObserve(DnsIps, {NameH, NameG})
    \/ last = NoCall /\ SocketConnect({1}, HostnameAddrs, {TRUE})
    \/ last = NoCall /\ SocketSendmsg({1}, {<<TRUE, FALSE>>}, HostnameAddrs, {TRUE})

SpecHostname == InitHostname /\ [][NextHostname]_vars

\* Blacklist patterns of length zero: two policy slots are drawn at Init,
\* task 1 enters execve with one, two or three arguments in a monitored or
\* an unmonitored cgroup, and the bprm check runs in the monitored one
ZeroPatternRules ==
    {ExecRule(0, PathA, <<<<>>>>),
     ExecRule(0, PathA, <<ArgC, <<>>>>),
     ExecRule(0, PathA, <<ArgC, ArgC, ArgC, <<>>>>),
     ExecRule(1, PathA, <<<<>>>>),
     ExecRule(1, PathA, <<>>)}
ZeroPatternArgvs ==
    {<<Str(ArgX)>>, <<Str(ArgX), Str(ArgV)>>, <<Str(ArgX), Str(ArgX), Str(ArgC)>>}

InitZeroPattern ==
    /\ attached = "exec"
    /\ ZeroOpenMaps /\ ZeroConnectMaps
    /\ exec_target_cgroup = 1 /\ exec_allowed_cgroups = (1 :> 1)
    /\ \E r1 \in ZeroPatternRules, r2 \in ZeroPatternRules :
          exec_policy_rules = Slots(r1, r2, ZeroExecRule)
    /\ exec_num_rules \in {1, 2}
    /\ exec_default_policy \in Defaults
    /\ pending_exec_args = <<>>
    /\ task = [p \in Pids |-> IdleTask]
    /\ last = NoCall

NextZeroPattern ==
    \/ SysEnterExecve({1}, Cgroups, ZeroPatternArgvs, ExecComms)
    \/ BprmCheck({1}, {1}, ExecPaths, ExecComms, {TRUE})
    \/ ExecveDone({1})

SpecZeroPattern == InitZeroPattern /\ [][NextZeroPattern]_vars

\* Loop bounds: rule counts at and beyond the caps of the three matchers,
\* rule paths of the longest length a rule may declare, and an execve with
\* more arguments than the tracepoint stores; each behaviour runs one open,
\* one connect or sendmsg, or one execve
Path64 == [i \in 1..64 |-> 112]
BoundsCounts == {0, MaxRules, 65}
BoundsOpenRules == {OpenRule(1, OP_OPEN_RW, PathB), OpenRule(0, OP_OPEN, Path64)}
BoundsExecRules == {ExecRule(1, PathB, <<>>), ExecRule(0, Path64, <<ArgC>>)}
BoundsConnectRules == {ConnectRule(1, 1, 0), ConnectRule(0, 2, 443)}
BoundsArgvs ==
    {<<Str(ArgX), Str(ArgV)>>,
     <<Str(ArgX), Str(ArgX), Str(ArgX), Str(ArgX), Str(ArgX), Str(ArgX), Str(ArgC)>>}
BoundsAddrs == {Addr(TRUE, AF_INET, TRUE, ip, 443) : ip \in {1, 2}}

InitBounds ==
    /\ pending_exec_args = <<>>
    /\ dns_cache = <<>>
    /\ task = [p \in Pids |-> IdleTask]
    /\ last = NoCall
    /\ \/ /\ attached = "open"
          /\ ZeroExecMaps /\ ZeroConnectMaps
          /\ target_cgroup = 1 /\ allowed_cgroups = (1 :> 1)
          /\ policy_rules \in [1..MaxRules -> BoundsOpenRules]
          /\ num_rules \in BoundsCounts
          /\ default_policy \in MatcherDefaults
       \/ /\ attached = "exec"
          /\ ZeroOpenMaps /\ ZeroConnectMaps
          /\ exec_target_cgroup = 1 /\ exec_allowed_cgroups = (1 :> 1)
          /\ exec_policy_rules \in [1..MaxRules -> BoundsExecRules]
          /\ exec_num_rules \in BoundsCounts
          /\ exec_default_policy \in MatcherDefaults
       \/ /\ attached = "connect"
          /\ ZeroOpenMaps /\ ZeroExecMaps
          /\ connect_target_cgroup = 1 /\ connect_allowed_cgroups = (1 :> 1)
          /\ connect_policy_rules \in [1..MaxRules -> BoundsConnectRules]
          /\ connect_num_rules \in BoundsCounts
          /\ connect_default_policy \in MatcherDefaults

NextBounds ==
    \/ last = NoCall /\ FileOpen(Cgroups, {PathA, LongPath}, OpenModes, {CommSh}, ReserveOutcomes)
    \/ SysEnterExecve({1}, Cgroups, BoundsArgvs, ExecComms)
    \/ last.probe = "tracepoint"
          /\ BprmCheck({1}, Cgroups, {PathA, LongPath}, ExecComms, ReserveOutcomes)
    \/ last = NoCall /\ SocketConnect(Cgroups, BoundsAddrs, ReserveOutcomes)
    \/ last = NoCall /\ SocketSendmsg(Cgroups, SendmsgHeaders, BoundsAddrs, ReserveOutcomes)

SpecBounds == InitBounds /\ [][NextBounds]_vars

\* All probes against loaded maps: the controller has registered cgroup 1
\* and loaded a policy into the attached object, and only probes run
InitFrameOpen ==
    /\ attached = "open"
    /\ ZeroExecMaps /\ ZeroConnectMaps /\ pending_exec_args = <<>>
    /\ target_cgroup = 1 /\ allowed_cgroups = (1 :> 1)
    /\ policy_rules = Slots(OpenRule(0, OP_OPEN, PathA), ZeroPolicyRule, ZeroPolicyRule)
    /\ num_rules = 1
    /\ default_policy \in Defaults
    /\ task = [p \in Pids |-> IdleTask]
    /\ last = NoCall

InitFrameConnect ==
    /\ attached = "connect"
    /\ ZeroOpenMaps /\ ZeroExecMaps /\ pending_exec_args = <<>>
    /\ connect_target_cgroup = 1 /\ connect_allowed_cgroups = (1 :> 1)
    /\ connect_policy_rules = Slots(ConnectRule(0, 1, 0), ZeroConnectRule, ZeroConnectRule)
    /\ connect_num_rules = 1
    /\ connect_default_policy \in Defaults
    /\ dns_cache = (1 :> NameH)
    /\ task = [p \in Pids |-> IdleTask]
    /\ last = NoCall

InitFrame == InitExec \/ InitFrameOpen \/ InitFrameConnect

NextFrame ==
    \/ FileOpen(Cgroups, OpenPaths, OpenModes, OpenComms, ReserveOutcomes)
    \/ SysEnterExecve(Pids, Cgroups, ExecArgvs, ExecComms)
    \/ BprmCheck(Pids, Cgroups, ExecPaths, ExecComms, ReserveOutcomes)
    \/ ExecveDone(Pids)
    \/ SocketConnect(Cgroups, ConnectAddrs, ReserveOutcomes)
    \/ SocketSendmsg(Cgroups, SendmsgHeaders, SendmsgAddrs, ReserveOutcomes)

SpecFrame == InitFrame /\ [][NextFrame]_vars

----------------------------------------------------------------------------
(* Iteration counts: how many times the body of each loop has run when the  *)
(* loop is left; every loop starts at i = 0                                 *)

\* byte comparisons of simple_string_starts_with
RECURSIVE starts_with_steps(_, _, _, _)
starts_with_steps(s, p, max_len, i) ==
    IF i >= 64 THEN i
    ELSE IF i >= max_len THEN i
    ELSE IF Byte(s, i) # Byte(p, i) THEN i + 1
    ELSE starts_with_steps(s, p, max_len, i + 1)

simple_string_starts_with_steps(s, p, max_len) ==
    starts_with_steps(s, p, IF max_len > 64 THEN 64 ELSE max_len, 0)

\* rule lookups of the loop of check_path_policy
RECURSIVE path_policy_steps(_, _, _, _, _)
path_policy_steps(rules, path, file_op_type, n, i) ==
    IF i >= 256 \/ i >= n THEN i
    ELSE LET rule == PolicyRuleAt(rules, i) IN
         IF PolicyRuleIsNull(i) THEN path_policy_steps(rules, path, file_op_type, n, i + 1)
         ELSE IF rule.path_len = 0 \/ rule.path_len > 64
              THEN path_policy_steps(rules, path, file_op_type, n, i + 1)
         ELSE IF simple_string_starts_with(path, rule.path, rule.path_len) = 1
                 /\ (rule.operation = OP_OPEN \/ rule.operation = file_op_type)
              THEN i + 1
         ELSE path_policy_steps(rules, path, file_op_type, n, i + 1)

check_path_policy_steps(path, file_op_type) ==
    IF num_rules = 0 THEN 0
    ELSE path_policy_steps(policy_rules, path, file_op_type,
                           IF num_rules > 256 THEN 256 ELSE num_rules, 0)

\* rule lookups of the loop of check_exec_policy
RECURSIVE exec_policy_steps(_, _, _, _, _, _)
exec_policy_steps(rules, path, pid, n, i, pmap) ==
    IF ~(i < n /\ i < 64) THEN i
    ELSE LET rule == ExecRuleAt(rules, i) IN
         IF ExecRuleIsNull(i) \/ rule.path_len = 0 \/ rule.path_len > 64
         THEN exec_policy_steps(rules, path, pid, n, i + 1, pmap)
         ELSE IF simple_string_starts_with(path, rule.path, rule.path_len) = 1
         THEN IF rule.arg_count = 0 THEN i + 1
              ELSE IF blacklist_hit(rule, pid, pmap) THEN i + 1
              ELSE exec_policy_steps(rules, path, pid, n, i + 1, pmap)
         ELSE exec_policy_steps(rules, path, pid, n, i + 1, pmap)

check_exec_policy_steps(pmap, path, pid) ==
    IF exec_num_rules = 0 THEN 0
    ELSE exec_policy_steps(exec_policy_rules, path, pid,
                           IF exec_num_rules > 64 THEN 64 ELSE exec_num_rules, 0, pmap)

\* rule lookups of the loop of check_connect_policy
RECURSIVE connect_policy_steps(_, _, _, _, _)
connect_policy_steps(rules, count, dest_ip, dest_port, i) ==
    IF i >= 256 \/ i >= count THEN i
    ELSE LET rule == ConnectRuleAt(rules, i) IN
         IF ConnectRuleIsNull(i)
         THEN connect_policy_steps(rules, count, dest_ip, dest_port, i + 1)
         ELSE IF rule.dest_ip # 0 /\ rule.dest_ip # dest_ip
              THEN connect_policy_steps(rules, count, dest_ip, dest_port, i + 1)
         ELSE IF rule.dest_port # 0 /\ rule.dest_port # dest_port
              THEN connect_policy_steps(rules, count, dest_ip, dest_port, i + 1)
         ELSE i + 1

check_connect_policy_steps(dest_ip, dest_port) ==
    IF connect_num_rules <= 0 THEN 0
    ELSE connect_policy_steps(connect_policy_rules, connect_num_rules, dest_ip, dest_port, 0)

\* a variant of the capture loop that walks the argv array to its end
RECURSIVE capture_steps_whole_argv(_, _)
capture_steps_whole_argv(uargv, i) ==
    IF ArgvSlot(uargv, i).k # "str" THEN i + 1
    ELSE capture_steps_whole_argv(uargv, i + 1)

\* argv slots the capture loop of the tracepoint reads
RECURSIVE capture_steps(_, _)
capture_steps(uargv, i) ==
    IF i >= 6 THEN i
    ELSE IF ArgvSlot(uargv, i).k # "str" THEN i + 1
    ELSE capture_steps(uargv, i + 1)

----------------------------------------------------------------------------
(* Properties *)

Min(a, b) == IF a < b THEN a ELSE b
Lowest(S) == CHOOSE i \in S : \A j \in S : i <= j

Decided(l) == l.stage \in {"noreserve", "submit"}

\* the sentinel slot and the allowed-cgroup map of the object a probe belongs to
GateSentinel(probe) ==
    CASE probe = "open" -> target_cgroup
      [] probe \in {"exec", "tracepoint"} -> exec_target_cgroup
      [] OTHER -> connect_target_cgroup
GateAllowed(probe) ==
    CASE probe = "open" -> allowed_cgroups
      [] probe \in {"exec", "tracepoint"} -> exec_allowed_cgroups
      [] OTHER -> connect_allowed_cgroups

\* C1: a probe that runs while the sentinel of its object is zero, or in a
\* cgroup that is not a key of the object's allowed-cgroup map, returns 0,
\* submits no event and leaves pending_exec_args as it was.
C1_ClosedGateIsInert ==
    [][ ( /\ last'.probe # "none"
          /\ \/ GateSentinel(last'.probe) = 0
             \/ last'.cg \notin DOMAIN GateAllowed(last'.probe) )
        => ( /\ last'.ret = 0
             /\ last'.event.kind = "none"
             /\ pending_exec_args' = pending_exec_args ) ]_vars

\* C1 happens: the execve tracepoint ran in a registered cgroup while the
\* sentinel was zero, and stored nothing
C1_Witness ==
    /\ last.probe = "tracepoint"
    /\ exec_target_cgroup = 0
    /\ last.cg \in DOMAIN exec_allowed_cgroups
    /\ exec_allowed_cgroups[last.cg] = 1
    /\ pending_exec_args = <<>>

\* C2: the value a probe returns does not depend on whether the ring-buffer
\* reservation succeeds: the same invocation on the same maps with the other
\* reservation outcome returns the same value.
C2_VerdictIgnoresReservation ==
    [][ /\ last'.probe = "open" =>
             lsm_open_result(last'.cg, last'.path, last'.f_mode, last'.comm,
                             ~last'.reserve_ok).ret = last'.ret
        /\ last'.probe = "exec" =>
             lsm_exec_result(last'.pid, last'.cg, last'.path, last'.comm,
                             ~last'.reserve_ok).ret = last'.ret
        /\ last'.probe = "connect" =>
             lsm_connect_result(last'.cg, last'.addr, ~last'.reserve_ok).ret = last'.ret
        /\ last'.probe = "sendmsg" =>
             lsm_sendmsg_result(last'.cg, last'.msg_ok, last'.name_null, last'.addr,
                                ~last'.reserve_ok).ret = last'.ret ]_vars

\* C3: the result field of every submitted event is the value the invocation
\* returns, and that value is 0 or -13.
C3_EventResultIsVerdict ==
    (last.probe # "none" /\ last.event.kind # "none")
        => (last.event.result = last.ret /\ last.ret \in {0, EACCES_RET})

\* C3 happens: an open event of a package-manager task whose matched verdict
\* was deny carries the forced allow that was returned
C3_Witness ==
    /\ last.probe = "open"
    /\ last.event.kind = "open"
    /\ package_manager_comm(last.comm)
    /\ last.matched = 0
    /\ last.ret = 0
    /\ last.event.result = 0

\* C4: when the bprm check of a task passes the gate during an execve call
\* whose tracepoint passed the gate, its exec event carries the argc and
\* detailed_args the tracepoint built, and the task's pending_exec_args entry
\* is absent once the check has returned.
C4_CorrelationConsumed ==
    (last.probe = "exec" /\ last.stage # "gate" /\ task[last.pid].tp # <<>>)
        => ( /\ last.event.kind = "exec"
             /\ last.event.argc = task[last.pid].tp[1].argc
             /\ last.event.detailed_args = task[last.pid].tp[1].detailed_args
             /\ last.pid \notin DOMAIN pending_exec_args )

\* C5: when the tracepoint's record was refused by a full pending_exec_args,
\* the bprm check returns what it would return with the record in the map.
C5_ExhaustionKeepsVerdict ==
    ( /\ last.probe = "exec" /\ last.stage # "gate"
      /\ task[last.pid].tp # <<>> /\ ~task[last.pid].stored
      /\ last.pending = <<>> )
        => last.ret = Verdict(exec_policy_with(last.pid :> task[last.pid].tp[1],
                                               last.path, last.pid))

\* the open rule at index i decides for the path and the observed mode
OpenRuleDecides(i, path, mode) ==
    LET rule == PolicyRuleLookup(i) IN
    /\ rule.path_len >= 1 /\ rule.path_len <= 64
    /\ \A j \in 0..(rule.path_len - 1) : Byte(path, j) = Byte(rule.path, j)
    /\ (rule.operation = OP_OPEN \/ rule.operation = mode)
OpenDeciders(path, mode) ==
    {i \in 0..(Min(num_rules, 256) - 1) : OpenRuleDecides(i, path, mode)}
OpenReference(path, mode) ==
    IF OpenDeciders(path, mode) = {} THEN default_policy
    ELSE PolicyRuleLookup(Lowest(OpenDeciders(path, mode))).action

ExecPathMatches(i, path) ==
    LET rule == ExecRuleLookup(i) IN
    /\ rule.path_len >= 1 /\ rule.path_len <= 64
    /\ \A j \in 0..(rule.path_len - 1) : Byte(path, j) = Byte(rule.path, j)
\* some policy arg p < min(arg_count, 3) agrees with some captured argument
\* 1 <= a < min(argc, 4) on the first min(arg_lens[p], 16) bytes
ExecArgHit(rule, pending) ==
    \E p \in 0..(Min(rule.arg_count, 3) - 1), a \in 1..(Min(pending.argc, 4) - 1) :
        \A j \in 0..(Min(rule.arg_lens[p + 1], 16) - 1) :
            Byte(pending.detailed_args[a + 1], j) = Byte(rule.args[p + 1], j)
\* found is the pending entry of the task: <<>> or <<entry>>
ExecRuleDecides(i, path, found) ==
    LET rule == ExecRuleLookup(i) IN
    /\ ExecPathMatches(i, path)
    /\ \/ rule.arg_count = 0
       \/ /\ rule.action = 0
          /\ found # <<>>
          /\ found[1].argc > 1
          /\ ExecArgHit(rule, found[1])
ExecDeciders(path, found) ==
    {i \in 0..(Min(exec_num_rules, 64) - 1) : ExecRuleDecides(i, path, found)}
ExecReference(path, found) ==
    IF ExecDeciders(path, found) = {} THEN exec_default_policy
    ELSE LET rule == ExecRuleLookup(Lowest(ExecDeciders(path, found))) IN
         IF rule.arg_count = 0 THEN rule.action ELSE 0

\* the strings the rule at index i blacklists
PolicyArgs(i) ==
    LET rule == ExecRuleLookup(i) IN
    {Take(rule.args[p], rule.arg_lens[p]) : p \in 1..Min(rule.arg_count, 4)}
\* the strings the execve call of the task passes after argv[0]
InvokedArgs(pid) ==
    {task[pid].argv[a].s : a \in 2..Len(task[pid].argv)}

\* C7: when the first rule in scan order that could decide is a deny rule
\* with arg_count > 0 whose path matches, and one of its policy args equals an
\* argument of the call other than argv[0], the bprm check returns -13.
C7_BlacklistDenies ==
    ( /\ last.probe = "exec" /\ last.stage # "gate"
      /\ \E i \in 0..(Min(exec_num_rules, 64) - 1) :
            /\ ExecRuleLookup(i).action = 0
            /\ ExecRuleLookup(i).arg_count > 0
            /\ ExecPathMatches(i, last.path)
            /\ \A k \in 0..(i - 1) : ~ExecRuleDecides(k, last.path, last.pending)
            /\ PolicyArgs(i) \cap InvokedArgs(last.pid) # {} )
        => last.ret = EACCES_RET

\* C8: check_exec_policy returns what the lowest-indexed deciding rule below
\* min(num_rules, 64) gives (its action when arg_count = 0, deny when it is a
\* deny rule whose blacklist hits the pending entry), and exec_default_policy
\* when no rule decides.
C8_ExecMatcherReference ==
    (last.probe = "exec" /\ last.stage # "gate")
        => last.policy_result = ExecReference(last.path, last.pending)

\* C8 happens: the blacklist of a deny rule hit the pending entry and denied
\* an exec the default would have allowed
C8_Witness ==
    /\ last.probe = "exec" /\ last.stage = "submit"
    /\ last.pending # <<>>
    /\ exec_default_policy = 1
    /\ last.policy_result = 0
    /\ ExecDeciders(last.path, last.pending) # {}
    /\ ExecRuleLookup(Lowest(ExecDeciders(last.path, last.pending))).arg_count > 0

\* the connect rule at index i matches the endpoint
ConnectRuleMatches(i, ip, port) ==
    LET rule == ConnectRuleLookup(i) IN
    /\ (rule.dest_ip = 0 \/ rule.dest_ip = ip)
    /\ (rule.dest_port = 0 \/ rule.dest_port = port)
ConnectMatchers(ip, port) ==
    {i \in 0..(Min(connect_num_rules, 256) - 1) : ConnectRuleMatches(i, ip, port)}
ConnectReference(ip, port) ==
    IF ConnectMatchers(ip, port) = {} THEN connect_default_policy
    ELSE ConnectRuleLookup(Lowest(ConnectMatchers(ip, port))).action

\* C9: check_connect_policy returns the action of the lowest-indexed rule
\* below min(num_rules, 256) whose dest_ip is 0 or the observed address and
\* whose dest_port is 0 or the observed port, and connect_default_policy when
\* there is none.
C9_ConnectFirstMatch ==
    (last.probe \in {"connect", "sendmsg"} /\ Decided(last))
        => last.policy_result = ConnectReference(last.addr.ip, last.addr.port)

\* C9 happens: the first rule was passed over for its port or address and a
\* later rule decided against the default
C9_Witness ==
    /\ last.probe = "connect" /\ Decided(last)
    /\ ConnectMatchers(last.addr.ip, last.addr.port) # {}
    /\ Lowest(ConnectMatchers(last.addr.ip, last.addr.port)) > 0
    /\ last.policy_result # connect_default_policy

\* C10: a probe that runs in a cgroup that is not in the allowed-cgroup map of
\* its object with value 1, or while the sentinel is zero, returns 0 and
\* submits no event.
C10_OnlyValueOneIsMonitored ==
    ( /\ last.probe # "none"
      /\ ~( /\ GateSentinel(last.probe) # 0
            /\ last.cg \in DOMAIN GateAllowed(last.probe)
            /\ GateAllowed(last.probe)[last.cg] = 1 ) )
        => (last.ret = 0 /\ last.event.kind = "none")

\* C11: when the matcher of a monitored operation returns a value other than
\* 0 and 1, the probe returns -13 and an event it submits has result -13.
C11_OtherActionsDeny ==
    (last.probe # "none" /\ Decided(last) /\ last.policy_result \notin {0, 1})
        => ( /\ last.ret = EACCES_RET
             /\ last.event.kind # "none" => last.event.result = EACCES_RET )

\* the path is one of the eight namespace prefixes, then k digits with
\* lo <= k <= hi, then "]"
NsfsShape(path, lo, hi) ==
    \E p \in 1..8 : \E k \in lo..hi :
        LET prefix == nsfs_prefixes[p] IN
        /\ \A i \in 0..(Len(prefix) - 1) : Byte(path, i) = prefix[i + 1]
        /\ \A j \in 0..(k - 1) : IsDigit(Byte(path, Len(prefix) + j))
        /\ Byte(path, Len(prefix) + k) = 93

\* the open passed the gate
OpenMonitored == last.probe = "open" /\ is_target_cgroup(last.cg)

\* the open was let through unseen: allow, no event
OpenBypassed == last.ret = 0 /\ last.event = NoEvent /\ last.stage = "nsfs"

\* the open was judged by the rules: the verdict is the matcher's (or the
\* package-manager override's), and an event is written when a record could
\* be reserved
OpenJudged ==
    /\ last.stage \in {"noreserve", "submit"}
    /\ last.ret = Verdict(last.policy_result)
    /\ last.reserve_ok => last.event.kind = "open"

\* C12 as stated: a monitored open of a path made of a namespace prefix, at
\* least one digit and "]" returns allow without an event, and a path with
\* no digit before "]" is not bypassed.
C12_NsfsBypassAnyDigits ==
    OpenMonitored =>
        /\ NsfsShape(last.path, 1, MAX_PATH_LEN) => OpenBypassed
        /\ NsfsShape(last.path, 0, 0) => OpenJudged

\* C12, amended: the bypass applies when the "]" stands within the sixteen
\* characters after the prefix, that is after one to fifteen digits; with no
\* digit, or with sixteen or more digits, the open is judged by the rules.
C12_NsfsBypass ==
    OpenMonitored =>
        /\ NsfsShape(last.path, 1, 15) => OpenBypassed
        /\ ~NsfsShape(last.path, 1, 15) => OpenJudged

C12_Witness ==
    /\ OpenMonitored /\ last.path = PathNs15 /\ OpenBypassed
    /\ num_rules = 1 /\ policy_rules[1] = OpenRule(0, OP_OPEN, NetPrefix)
    /\ default_policy = 0

\* the comm is "apt-get", or begins with "dpkg" or with "update"
PackageManager(comm) ==
    \/ CStr(comm) = CommAptGet
    \/ Len(CStr(comm)) >= 4 /\ SubSeq(CStr(comm), 1, 4) = CommDpkg
    \/ Len(CStr(comm)) >= 6 /\ SubSeq(CStr(comm), 1, 6) = SubSeq(CommUpdatedb, 1, 6)

\* C13: a monitored non-nsfs open by a package manager returns allow and an
\* event written for it has result 0; any other comm gets the matcher's
\* verdict.
C13_PackageManagerAllowed ==
    (OpenMonitored /\ last.stage # "nsfs") =>
        IF PackageManager(last.comm)
        THEN /\ last.ret = 0
             /\ last.event.kind = "open" => last.event.result = 0
        ELSE last.ret = Verdict(last.matched)

\* the lowest-indexed path-matching rule with arg_count = 0 gives the result,
\* the default policy when there is none
PathOnlyDeciders(path) ==
    {i \in 0..(Min(exec_num_rules, 64) - 1) :
        ExecPathMatches(i, path) /\ ExecRuleLookup(i).arg_count = 0}
PathOnlyReference(path) ==
    IF PathOnlyDeciders(path) = {} THEN exec_default_policy
    ELSE ExecRuleLookup(Lowest(PathOnlyDeciders(path))).action

\* C14: when the bprm check passes the gate and pending_exec_args has no
\* entry for its pid, the map is left as it was, the event has argc 0 and
\* all-zero detailed_args, and the result is the action of the first
\* path-matching rule with arg_count = 0, or the default policy.
C14_CorrelationMiss ==
    [][ ( /\ last'.probe = "exec" /\ last'.stage # "gate"
          /\ last'.pid \notin DOMAIN pending_exec_args )
        => ( /\ pending_exec_args' = pending_exec_args
             /\ last'.event.kind = "exec"
             /\ last'.event.argc = 0
             /\ last'.event.detailed_args = ZeroArgs
             /\ last'.policy_result = PathOnlyReference(last'.path)
             /\ last'.ret = Verdict(last'.policy_result) ) ]_vars

\* C14 happens: the task's record was refused by the full map, the entry of
\* another task is still there, the deny rule with arguments in slot 0 was
\* passed over although the call carried its argument, and the path-only
\* allow rule in slot 1 decided against the deny default
C14_Witness ==
    /\ last.probe = "exec" /\ last.stage = "submit" /\ last.pending = <<>>
    /\ task[last.pid].tp # <<>> /\ ~task[last.pid].stored
    /\ pending_exec_args # <<>>
    /\ exec_policy_rules[1] = ExecRule(0, PathA, <<ArgC>>)
    /\ exec_policy_rules[2] = ExecRule(1, PathA, <<>>)
    /\ exec_default_policy = 0
    /\ last.path = PathA
    /\ last.event.argc = 0
    /\ last.ret = 0

FoundMap(l) == IF l.pending = <<>> THEN <<>> ELSE l.pid :> l.pending[1]

\* C16: a rule slot at index >= min(num_rules, CAP) has no influence on the
\* matcher's result: with any other rule in such a slot, the matcher returns
\* for the same input what the invocation returned (arrays that agree below
\* min(num_rules, CAP) differ by a series of such replacements).
C16_SlotsBeyondCountIgnored ==
    /\ (last.probe = "open" /\ Decided(last)) =>
          \A k \in 1..MaxRules : \A alt \in OpenMatcherRules :
              k - 1 >= Min(num_rules, 256) =>
                  path_policy_on([policy_rules EXCEPT ![k] = alt], num_rules,
                                 default_policy, last.path,
                                 get_file_operation_type(last.f_mode)) = last.matched
    /\ (last.probe = "exec" /\ Decided(last)) =>
          \A k \in 1..MaxRules : \A alt \in ExecMatcherRules :
              k - 1 >= Min(exec_num_rules, 64) =>
                  exec_policy_on([exec_policy_rules EXCEPT ![k] = alt], exec_num_rules,
                                 exec_default_policy, FoundMap(last), last.path,
                                 last.pid) = last.policy_result
    /\ (last.probe \in {"connect", "sendmsg"} /\ Decided(last)) =>
          \A k \in 1..MaxRules : \A alt \in ConnectMatcherRules :
              k - 1 >= Min(connect_num_rules, 256) =>
                  connect_policy_on([connect_policy_rules EXCEPT ![k] = alt],
                                    connect_num_rules, connect_default_policy,
                                    last.addr.ip, last.addr.port) = last.policy_result

\* C16 happens: the slot just beyond the count holds a rule that matches the
\* open and carries the other action, and the result is the default policy
C16_Witness ==
    /\ last.probe = "open" /\ Decided(last)
    /\ num_rules = 1
    /\ ~OpenRuleDecides(0, last.path, get_file_operation_type(last.f_mode))
    /\ OpenRuleDecides(1, last.path, get_file_operation_type(last.f_mode))
    /\ PolicyRuleLookup(1).action # default_policy
    /\ last.matched = default_policy

\* the array without the rule in slot k (slots are numbered from 1 here);
\* slots beyond the array hold zero rules, so removing one leaves the array
RemoveRule(rules, k) ==
    IF k > Len(rules) THEN rules
    ELSE [i \in 1..(Len(rules) - 1) |-> IF i < k THEN rules[i] ELSE rules[i + 1]]

IgnoredLen(rule) == rule.path_len = 0 \/ rule.path_len > 64

\* C17: an open or exec rule with path_len 0 or above 64 never decides: the
\* matcher returns for the table without that rule (the others in order, the
\* count one less) what the invocation returned.
C17_BadLengthRulesIgnored ==
    /\ (last.probe = "open" /\ Decided(last)) =>
          \A k \in 1..Min(num_rules, MaxRules + 1) :
              IgnoredLen(PolicyRuleLookup(k - 1)) =>
                  path_policy_on(RemoveRule(policy_rules, k), num_rules - 1,
                                 default_policy, last.path,
                                 get_file_operation_type(last.f_mode)) = last.matched
    /\ (last.probe = "exec" /\ Decided(last)) =>
          \A k \in 1..Min(exec_num_rules, MaxRules + 1) :
              IgnoredLen(ExecRuleLookup(k - 1)) =>
                  exec_policy_on(RemoveRule(exec_policy_rules, k), exec_num_rules - 1,
                                 exec_default_policy, FoundMap(last), last.path,
                                 last.pid) = last.policy_result

\* C17 happens: the allow rule in slot 0 has path_len 65 and its first 64
\* bytes equal the opened path's, yet the open gets the deny default
C17_Witness ==
    /\ last.probe = "open" /\ Decided(last)
    /\ num_rules >= 1
    /\ policy_rules[1] = OpenRule(1, OP_OPEN, LongPath)
    /\ last.path = LongPath
    /\ default_policy = 0
    /\ last.matched = 0
    /\ last.ret = EACCES_RET

\* the destination of the call cannot be judged: a read of the message
\* header, of the family or of the sockaddr_in failed, msg_name is NULL, or
\* the family is not AF_INET
NonEnforceable(l) ==
    \/ l.probe = "sendmsg" /\ (~l.msg_ok \/ l.name_null)
    \/ ~l.addr.family_ok
    \/ l.addr.family # AF_INET
    \/ ~l.addr.addr_ok

\* C19: a connect or sendmsg probe that runs in a monitored cgroup and cannot
\* obtain an IPv4 destination returns 0 and submits no event, whatever the
\* rules and the default policy.
C19_NonEnforceableAllowed ==
    ( /\ last.probe \in {"connect", "sendmsg"}
      /\ connect_target_cgroup # 0
      /\ last.cg \in DOMAIN connect_allowed_cgroups
      /\ NonEnforceable(last) )
        => (last.ret = 0 /\ last.event = NoEvent)

\* C19 happens: a sendmsg without msg_name went through although the default
\* policy is deny and no rule is loaded
C19_Witness ==
    /\ last.probe = "sendmsg"
    /\ connect_target_cgroup # 0
    /\ last.cg \in DOMAIN connect_allowed_cgroups
    /\ last.msg_ok /\ last.name_null
    /\ last.reserve_ok
    /\ connect_num_rules = 0 /\ connect_default_policy = 0
    /\ last.ret = 0 /\ last.event = NoEvent

\* C18: the verdict of the bprm check is a function of the rules, the default
\* policy, the path and the arguments of the execve call alone: in an execve
\* whose tracepoint passed the gate it is the matcher's result for the path and
\* the record built from the call's own arguments, whatever ran before and
\* whatever pending_exec_args holds for other pids.
C18_VerdictIsPure ==
    (last.probe = "exec" /\ Decided(last) /\ task[last.pid].tp # <<>>)
        => last.ret = Verdict(exec_policy_on(exec_policy_rules, exec_num_rules,
                                             exec_default_policy,
                                             last.pid :> task[last.pid].tp[1],
                                             last.path, last.pid))

\* C20: whatever the interleaving of the tasks' execve calls, the arguments
\* the bprm check of a task copies into its event are those the tracepoint of
\* that task's own execve call captured.
C20_OwnArgsOnly ==
    (last.probe = "exec" /\ last.event.kind = "exec" /\ last.pending # <<>>)
        => ( /\ task[last.tid].tp # <<>>
             /\ last.event.argc = task[last.tid].tp[1].argc
             /\ last.event.detailed_args = task[last.tid].tp[1].detailed_args )

\* C21: a record of pending_exec_args is copied into at most one exec event:
\* the bprm check that copies the entry of its pid into an event removes that
\* entry in the same invocation, and no bprm check adds or alters an entry, so
\* a later copy under the same key comes from a later tracepoint write.
C21_AtMostOnceDelivery ==
    [][ last'.probe = "exec" =>
          /\ \A k \in DOMAIN pending_exec_args' :
                k \in DOMAIN pending_exec_args
                /\ pending_exec_args'[k] = pending_exec_args[k]
          /\ (last'.event.kind = "exec" /\ last'.pending # <<>>) =>
                ( /\ last'.pid \in DOMAIN pending_exec_args
                  /\ last'.event.argc = pending_exec_args[last'.pid].argc
                  /\ last'.event.detailed_args = pending_exec_args[last'.pid].detailed_args
                  /\ last'.pid \notin DOMAIN pending_exec_args' ) ]_vars

\* C21 happens: the record the task's tracepoint stored was copied into the
\* event of its bprm check and is gone from the map
C21_Witness ==
    /\ last.probe = "exec" /\ last.stage = "submit"
    /\ task[last.tid].stored
    /\ last.pending = task[last.tid].tp
    /\ last.event.argc = task[last.tid].tp[1].argc
    /\ last.pid \notin DOMAIN pending_exec_args

\* C22: an entry of pending_exec_args that the bprm check finds for its pid
\* was written by the tracepoint of the execve call the check belongs to; an
\* entry left by an earlier execve of the pid is never found.
C22_NoStaleEntryUsed ==
    (last.probe = "exec" /\ last.stage # "gate" /\ last.pending # <<>>)
        => ( /\ task[last.tid].tp # <<>>
             /\ task[last.tid].stored
             /\ last.pending = task[last.tid].tp )

\* what the two complete policies give for the input of the last invocation
OpenVerdicts(l) ==
    {path_policy_on(P.rules, P.count, P.dflt, l.path, get_file_operation_type(l.f_mode)) :
        P \in {OldOpenPolicy, NewOpenPolicy}}
ConnectVerdicts(l) ==
    {connect_policy_on(P.rules, P.count, P.dflt, l.addr.ip, l.addr.port) :
        P \in {OldConnectPolicy, NewConnectPolicy}}

\* C23 as stated: a probe that runs while the controller replaces one policy
\* by another, one map entry per write, returns what the complete old policy
\* or the complete new policy gives for its input.
C23_OldOrNewVerdict ==
    /\ (last.probe = "open" /\ Decided(last)) =>
          ( /\ last.matched \in OpenVerdicts(last)
            /\ last.ret \in {Verdict(v) : v \in OpenVerdicts(last)} )
    /\ (last.probe = "connect" /\ Decided(last)) =>
          ( /\ last.policy_result \in ConnectVerdicts(last)
            /\ last.ret \in {Verdict(v) : v \in ConnectVerdicts(last)} )

\* C23, amended: the probe judges the map entries as they stand, each of which
\* holds its old or its new value: its result is the first-match decision over
\* those entries, which can differ from what both complete policies give.
C23_EntrywiseVerdict ==
    /\ (last.probe = "open" /\ Decided(last)) =>
          ( /\ Entrywise(policy_rules, num_rules, default_policy,
                         OldOpenPolicy, NewOpenPolicy)
            /\ last.matched = OpenReference(last.path, get_file_operation_type(last.f_mode))
            /\ last.ret = Verdict(last.matched) )
    /\ (last.probe = "connect" /\ Decided(last)) =>
          ( /\ Entrywise(connect_policy_rules, connect_num_rules, connect_default_policy,
                         OldConnectPolicy, NewConnectPolicy)
            /\ last.policy_result = ConnectReference(last.addr.ip, last.addr.port)
            /\ last.ret = Verdict(last.policy_result) )

\* C23 happens: between the controller's writes the default is the new one
\* and the first rule still the old one, and the open of "/a", which both
\* complete policies allow, is denied
C23_Witness ==
    /\ last.probe = "open" /\ Decided(last)
    /\ last.path = PathA
    /\ policy_rules[1] = OldOpenPolicy.rules[1]
    /\ default_policy = NewOpenPolicy.dflt
    /\ OpenVerdicts(last) = {1}
    /\ last.matched = 0
    /\ last.ret = EACCES_RET

\* the number of leading strings of the argument vector that can be read, at
\* most six
LeadingStrings(argv) ==
    Cardinality({i \in 1..Min(6, Len(argv)) : \A j \in 1..i : argv[j].k = "str"})

\* the record the claim describes for an execve with this argument vector:
\* each captured string fills a 24-byte slot, terminator included
ExpectedRecord(argv, comm) ==
    LET n == LeadingStrings(argv) IN
    IF n = 0
    THEN [argc |-> 1,
          detailed_args |-> [i \in 1..6 |-> IF i = 1 THEN Take(CStr(comm), 15) ELSE ZeroBuf]]
    ELSE [argc |-> n,
          detailed_args |-> [i \in 1..6 |-> IF i <= n THEN Take(CStr(argv[i].s), 23)
                                            ELSE ZeroBuf]]

\* C24: the execve tracepoint of a task in a monitored cgroup returns 0,
\* submits no event, and leaves under the key of its pid the record of the
\* call's leading readable arguments (at most six, each cut to its 24-byte
\* slot; comm as the only argument when none was captured), replacing any
\* entry the key had.
C24_TracepointStores ==
    [][ ( /\ last'.probe = "tracepoint"
          /\ exec_target_cgroup # 0
          /\ last'.cg \in DOMAIN exec_allowed_cgroups
          /\ exec_allowed_cgroups[last'.cg] = 1 )
        => ( /\ last'.ret = 0 /\ last'.event = NoEvent
             /\ last'.pid \in DOMAIN pending_exec_args'
             /\ pending_exec_args'[last'.pid]
                    = ExpectedRecord(task'[last'.tid].argv, last'.comm)
             /\ \A k \in DOMAIN pending_exec_args \ {last'.pid} :
                    /\ k \in DOMAIN pending_exec_args'
                    /\ pending_exec_args'[k] = pending_exec_args[k] ) ]_vars

\* the shape of the record alone: whenever the map takes the tracepoint's
\* write, the entry is the described record
StoredRecordShape ==
    [][ ( /\ last'.probe = "tracepoint"
          /\ exec_target_cgroup # 0
          /\ last'.cg \in DOMAIN exec_allowed_cgroups
          /\ exec_allowed_cgroups[last'.cg] = 1 )
        => ( /\ last'.ret = 0 /\ last'.event = NoEvent
             /\ task'[last'.tid].stored =>
                  /\ last'.pid \in DOMAIN pending_exec_args'
                  /\ pending_exec_args'[last'.pid]
                         = ExpectedRecord(task'[last'.tid].argv, last'.comm) ) ]_vars

\* the two results differ at most in the event's dest_hostname
SameButHostname(a, b) ==
    /\ a.ret = b.ret /\ a.policy_result = b.policy_result /\ a.stage = b.stage
    /\ a.event.kind = b.event.kind
    /\ a.event.kind = "connect" =>
          [a.event EXCEPT !.dest_hostname = <<>>] = [b.event EXCEPT !.dest_hostname = <<>>]

\* C25: host names have no part in enforcement.  A connect or sendmsg gets
\* the same matcher result whatever the hostname, hostname_len and
\* is_wildcard fields of any rule are, and when the DNS cache changes, every
\* destination gets the same verdict as before and an event that differs at
\* most in dest_hostname.
C25_HostnamesNotEnforced ==
    [][ /\ (last'.probe \in {"connect", "sendmsg"} /\ Decided(last')) =>
              \A k \in 1..MaxRules : \A f \in HostnameFields :
                  connect_policy_on(
                      [connect_policy_rules EXCEPT
                          ![k] = WithHostname(connect_policy_rules[k], f[1], f[2])],
                      connect_num_rules, connect_default_policy,
                      last'.addr.ip, last'.addr.port) = last'.policy_result
        /\ dns_cache' # dns_cache =>
              \A addr \in HostnameAddrs :
                  /\ SameButHostname(lsm_connect_result(1, addr, TRUE),
                                     lsm_connect_result(1, addr, TRUE)')
                  /\ SameButHostname(lsm_sendmsg_result(1, TRUE, FALSE, addr, TRUE),
                                     lsm_sendmsg_result(1, TRUE, FALSE, addr, TRUE)') ]_vars

\* C25 happens: the rule that decided names host "g", the cache resolves the
\* destination to "h", and the rule's deny stands against the allow default
C25_Witness ==
    /\ last.probe = "connect" /\ last.stage = "submit"
    /\ connect_num_rules >= 1
    /\ connect_policy_rules[1] = WithHostname(ConnectRule(0, 1, 0), NameG, 0)
    /\ last.addr.ip = 1
    /\ 1 \in DOMAIN dns_cache /\ dns_cache[1] = NameH
    /\ last.event.dest_hostname = NameH
    /\ connect_default_policy = 1
    /\ last.ret = EACCES_RET

\* the mode of an open as the policy language names it
WriteBit(f_mode) == (f_mode \div FMODE_WRITE) % 2 = 1
ReadBit(f_mode) == (f_mode \div FMODE_READ) % 2 = 1
ObservedMode(f_mode) ==
    CASE WriteBit(f_mode) -> OP_OPEN_RW
      [] ~WriteBit(f_mode) /\ ReadBit(f_mode) -> OP_OPEN_RO
      [] OTHER -> OP_OPEN
\* the rule array with the action of slot k (numbered from 1) turned over
FlipAction(rules, k) == [rules EXCEPT ![k].action = IF @ = 0 THEN 1 ELSE 0]

\* C26: the observed mode of an open is OPEN_RW when the WRITE bit is set,
\* else OPEN_RO when the READ bit is set, else OPEN; the event's operation
\* is the observed mode whatever rule matched; the matcher's result is the
\* first-match decision under that mode; and a rule of operation OPEN_RO has
\* no say in an open with the WRITE bit, nor a rule of operation OPEN_RW in a
\* read-only open: turning its action over leaves the result as it was.
C26_ObservedOpenMode ==
    (last.probe = "open" /\ Decided(last)) =>
        LET mode == ObservedMode(last.f_mode) IN
        /\ last.stage = "submit" => last.event.operation = mode
        /\ last.matched = OpenReference(last.path, mode)
        /\ \A k \in 1..MaxRules :
              \/ policy_rules[k].operation = OP_OPEN_RO /\ WriteBit(last.f_mode)
              \/ policy_rules[k].operation = OP_OPEN_RW /\ ~WriteBit(last.f_mode)
                    /\ ReadBit(last.f_mode)
              => path_policy_on(FlipAction(policy_rules, k), num_rules, default_policy,
                                last.path, get_file_operation_type(last.f_mode))
                   = last.matched

\* C26 happens: an open with both bits set is reported as OPEN_RW, the
\* allowing OPEN_RO rule in slot 0 matches its path, and the open is denied
\* by the default
C26_Witness ==
    /\ last.probe = "open" /\ last.stage = "submit"
    /\ last.f_mode = FMODE_READ + FMODE_WRITE
    /\ last.event.operation = OP_OPEN_RW
    /\ num_rules = 1
    /\ policy_rules[1] = OpenRule(1, OP_OPEN_RO, PathA)
    /\ last.path = PathAB
    /\ default_policy = 0
    /\ last.ret = EACCES_RET

\* the correlation map before and after a step agree on every key but pid
SameButKey(pid) ==
    \A k \in (DOMAIN pending_exec_args \cup DOMAIN pending_exec_args') \ {pid} :
        /\ k \in DOMAIN pending_exec_args /\ k \in DOMAIN pending_exec_args'
        /\ pending_exec_args'[k] = pending_exec_args[k]

\* C27: a probe invocation leaves every rule map, rule count, default
\* policy, cgroup sentinel, allowed-cgroup map and the DNS cache as they
\* were.  file_open, socket_connect and socket_sendmsg leave
\* pending_exec_args as it was; the tracepoint changes at most the key of
\* its own pid and removes none; the bprm check changes at most the key of
\* its own pid and only by removing it.
C27_ProbesLeaveControllerState ==
    [][ last'.probe # "none" =>
          /\ UNCHANGED <<openMaps, execCtlMaps, connectMaps>>
          /\ last'.probe \in {"open", "connect", "sendmsg"} => UNCHANGED pending_exec_args
          /\ last'.probe = "tracepoint" =>
                /\ SameButKey(last'.pid)
                /\ DOMAIN pending_exec_args \subseteq DOMAIN pending_exec_args'
          /\ last'.probe = "exec" =>
                /\ SameButKey(last'.pid)
                /\ last'.pid \in DOMAIN pending_exec_args' =>
                      /\ last'.pid \in DOMAIN pending_exec_args
                      /\ pending_exec_args'[last'.pid] = pending_exec_args[last'.pid] ]_vars

\* C27 happens: the bprm check of pid 2 passed the gate and reserved its
\* event while the map held the entry of pid 1, which is still there
C27_Witness ==
    /\ last.probe = "exec" /\ last.stage = "submit"
    /\ last.pid = 2
    /\ 1 \in DOMAIN pending_exec_args
    /\ task[1].pc = "execve" /\ task[1].stored
    /\ pending_exec_args[1] = task[1].tp[1]

\* the invocation reserved a ring-buffer record / submitted an event
Reserved(l) == l.stage \in {"noreserve", "submit"} /\ l.reserve_ok
Submitted(l) == l.event.kind # "none"
\* the invocation passed the gate and no early return applied
ReachesReserve(l) ==
    CASE l.probe = "open" -> is_target_cgroup(l.cg) /\ ~is_nsfs_path(l.path)
      [] l.probe = "exec" -> is_exec_target_cgroup(l.cg)
      [] l.probe \in {"connect", "sendmsg"} ->
            is_connect_target_cgroup(l.cg) /\ ~NonEnforceable(l)
      [] OTHER -> FALSE

\* C28: a probe invocation submits an event exactly when it reserved a
\* record, and it reserved one exactly when the gate passed, no bypass or
\* read-failure return applied and the reservation succeeded; the event it
\* submits is the one record of its own kind and cgroup; the tracepoint
\* reserves and submits nothing.
C28_ReservedIsSubmitted ==
    last.probe # "none" =>
        /\ last.probe = "tracepoint" => ~Submitted(last)
        /\ last.probe # "tracepoint" =>
              /\ Reserved(last) <=> (ReachesReserve(last) /\ last.reserve_ok)
              /\ Submitted(last) <=> Reserved(last)
              /\ Submitted(last) =>
                    /\ last.event.kind =
                          (IF last.probe = "sendmsg" THEN "connect" ELSE last.probe)
                    /\ last.event.cgroup_id = last.cg

\* C28 happens: a denied sendmsg reserved a record and submitted it
C28_Witness ==
    /\ last.probe = "sendmsg"
    /\ last.reserve_ok
    /\ last.ret = EACCES_RET
    /\ last.event.kind = "connect"
    /\ last.event.result = EACCES_RET

\* the rule at index i is a deny rule whose path matches and one of whose
\* examined policy args has length zero
ZeroPatternRule(i, path) ==
    LET rule == ExecRuleLookup(i) IN
    /\ rule.action = 0
    /\ rule.arg_count > 0
    /\ ExecPathMatches(i, path)
    /\ \E p \in 0..(Min(rule.arg_count, 3) - 1) : rule.arg_lens[p + 1] = 0

\* C29: take a deny rule below min(exec_num_rules, 64) whose path matches
\* and which has a policy arg p < min(arg_count, 3) of length zero.  When the
\* bprm check finds a correlation entry with argc > 1 and no earlier rule
\* decides, the matcher returns deny whatever the arguments are.  When the
\* entry is missing or its argc is at most 1, the rule has no part in the
\* result: with the slot emptied the matcher returns the same.
C29_ZeroLengthPattern ==
    (last.probe = "exec" /\ Decided(last)) =>
        \A i \in 0..(Min(exec_num_rules, 64) - 1) :
            ZeroPatternRule(i, last.path) =>
                IF last.pending # <<>> /\ last.pending[1].argc > 1
                THEN (\A k \in 0..(i - 1) : ~ExecRuleDecides(k, last.path, last.pending))
                        => (last.policy_result = 0 /\ last.ret = EACCES_RET)
                ELSE exec_policy_on([exec_policy_rules EXCEPT ![i + 1] = ZeroExecRule],
                                    exec_num_rules, exec_default_policy, FoundMap(last),
                                    last.path, last.pid) = last.policy_result

\* C29 happens: the rule in slot 0 blacklists "-c" and the empty string, the
\* call passed "-v" alone, and it was denied against the allow default
C29_Witness ==
    /\ last.probe = "exec" /\ last.stage = "submit"
    /\ exec_policy_rules[1] = ExecRule(0, PathA, <<ArgC, <<>>>>)
    /\ last.path = PathA
    /\ last.pending # <<>>
    /\ last.pending[1].argc = 2
    /\ InvokedArgs(last.pid) = {ArgV}
    /\ exec_default_policy = 1
    /\ last.ret = EACCES_RET

====
